---- MODULE Spec2Model ----
(***************************************************************************)
(* breadsimd: the two fixed-width tuple types Double<T> and Quad<T>, their *)
(* array backend (src/src/stable.rs), their SSE2 backend                   *)
(* (src/src/optimized/mod.rs, src/src/optimized/x86.rs) and the public     *)
(* wrappers that forward to whichever backend was selected                 *)
(* (src/src/lib.rs).                                                       *)
(*                                                                         *)
(* A 32-bit lane is its bit pattern <<hi, lo>>, two 16-bit halves, so that *)
(* every operation is exact 32-bit arithmetic without leaving the range of *)
(* TLC's integers.  An i32 reads the pattern as two's complement, a u32 as *)
(* an unsigned number.  An f32 lane is a record [nan, neg, mag]: a NaN, or *)
(* the number (-1)^neg * mag (mag = 0 with neg set is -0.0).               *)
(***************************************************************************)
EXTENDS Integers, Naturals, Sequences, FiniteSets, TLC

\* ------------------------------------------------------------------------
\* 32-bit patterns
\* ------------------------------------------------------------------------

\* A lane is 32 bits wide; a half is 16.
Half == 2 ^ 16
HalfTop == 2 ^ 15

ZERO == <<0, 0>>
ONE == <<0, 1>>
\* const TRUE: u32 = !0
TRUE32 == <<65535, 65535>>
\* i32::MIN, the pattern 0x8000_0000
I32_MIN == <<32768, 0>>

\* The pattern of a small natural number.
Pat(n) == <<n \div Half, n % Half>>
\* The pattern of the i32 -n, for n in 1 .. 2^31 - 1.
NegPat(n) == <<(Half - 1) - ((n - 1) \div Half), (Half - 1) - ((n - 1) % Half)>>

\* The sign bit of a pattern (what _mm_movemask_ps reads of a lane).
TopBit(p) == p[1] \div HalfTop

\* The two's complement value of a pattern, in -2^31 .. 2^31 - 1.
SInt(p) == (IF p[1] >= HalfTop THEN p[1] - Half ELSE p[1]) * Half + p[2]
\* The pattern of an integer of that range.
FromSInt(x) == <<(x \div Half) % Half, x % Half>>

\* a + b, a - b modulo 2^32.
WrapAdd(a, b) == <<(a[1] + b[1] + ((a[2] + b[2]) \div Half)) % Half, (a[2] + b[2]) % Half>>
WrapSub(a, b) == <<(a[1] - b[1] - (IF a[2] < b[2] THEN 1 ELSE 0)) % Half, (a[2] - b[2]) % Half>>

\* The low and the high 16 bits of the product of two 16-bit halves.
MulLo16(x, y) == ((x % 256) * y + 256 * (((x \div 256) * y) % 256)) % Half
MulHi16(x, y) ==
    ((x % 256) * y + 256 * (((x \div 256) * y) % 256)) \div Half + ((x \div 256) * y) \div 256
\* a * b modulo 2^32.
WrapMul(a, b) ==
    <<(MulHi16(a[2], b[2]) + MulLo16(a[1], b[2]) + MulLo16(a[2], b[1])) % Half,
      MulLo16(a[2], b[2])>>

RECURSIVE And16(_, _)
And16(x, y) == IF x = 0 \/ y = 0 THEN 0 ELSE (x % 2) * (y % 2) + 2 * And16(x \div 2, y \div 2)
RECURSIVE Or16(_, _)
Or16(x, y) ==
    IF x = 0 THEN y ELSE IF y = 0 THEN x
    ELSE (IF x % 2 = 1 \/ y % 2 = 1 THEN 1 ELSE 0) + 2 * Or16(x \div 2, y \div 2)
RECURSIVE Xor16(_, _)
Xor16(x, y) ==
    IF x = 0 THEN y ELSE IF y = 0 THEN x
    ELSE (IF x % 2 # y % 2 THEN 1 ELSE 0) + 2 * Xor16(x \div 2, y \div 2)

And32(a, b) == <<And16(a[1], b[1]), And16(a[2], b[2])>>
Or32(a, b) == <<Or16(a[1], b[1]), Or16(a[2], b[2])>>
Xor32(a, b) == <<Xor16(a[1], b[1]), Xor16(a[2], b[2])>>
Not32(a) == <<(Half - 1) - a[1], (Half - 1) - a[2]>>

\* Signed and unsigned order of two patterns.
SLt(a, b) == SInt(a) < SInt(b)
ULt(a, b) == a[1] < b[1] \/ (a[1] = b[1] /\ a[2] < b[2])

\* The unsigned quotient a / b for b # 0. With a = 2h + l: b >= 2^31 divides
\* at most once; otherwise h and b are below 2^31 and a / b = 2 (h / b) + e,
\* where e says whether twice the remainder of h plus l reaches b.
UDiv(a, b) ==
    IF b[1] >= HalfTop
    THEN IF ULt(a, b) THEN ZERO ELSE ONE
    ELSE LET h == a[1] * HalfTop + a[2] \div 2
             l == a[2] % 2
             d == b[1] * Half + b[2]
             q == h \div d
             r == h % d
             e == IF r + l >= d - r THEN 1 ELSE 0
         IN  <<q \div HalfTop, 2 * (q % HalfTop) + e>>

\* The quotient x / d rounded toward zero, for d > 0.
\* A faulty quotient that rounds toward minus infinity.
FloorPos(x, d) == x \div d
TruncPos(x, d) == IF x < 0 /\ x % d # 0 THEN (x \div d) + 1 ELSE x \div d
\* The signed quotient a / b rounded toward zero, for b # 0 and not MIN / -1.
SDiv(a, b) ==
    LET x == SInt(a)
        d == SInt(b)
    IN  IF b = I32_MIN THEN (IF a = I32_MIN THEN ONE ELSE ZERO)
        ELSE IF d > 0 THEN FromSInt(TruncPos(x, d))
        ELSE FromSInt(0 - TruncPos(x, 0 - d))

\* a << n for n in 0 .. 31: the product with 2^n modulo 2^32.
ShlN(a, n) == WrapMul(a, IF n < 16 THEN <<0, 2 ^ n>> ELSE <<2 ^ (n - 16), 0>>)
\* a >> n for n in 0 .. 31, filling with zeros.
UShrN(a, n) ==
    IF n < 16
    THEN <<a[1] \div (2 ^ n), (a[1] % (2 ^ n)) * (2 ^ (16 - n)) + a[2] \div (2 ^ n)>>
    ELSE <<0, a[1] \div (2 ^ (n - 16))>>
\* a >> n of the element type: an i32 fills with its sign bit.
ShrN(ty, a, n) ==
    IF ty = "i32" /\ a[1] >= HalfTop THEN Not32(UShrN(Not32(a), n)) ELSE UShrN(a, n)

\* ------------------------------------------------------------------------
\* f32 lanes
\* ------------------------------------------------------------------------

F(n) == [nan |-> FALSE, neg |-> n < 0, mag |-> IF n < 0 THEN 0 - n ELSE n]
NaN == [nan |-> TRUE, neg |-> FALSE, mag |-> 0]
NegZero == [nan |-> FALSE, neg |-> TRUE, mag |-> 0]
FVal(x) == IF x.neg THEN 0 - x.mag ELSE x.mag
\* IEEE comparisons: every comparison with a NaN is false, -0.0 == 0.0.
FEq(x, y) == ~x.nan /\ ~y.nan /\ FVal(x) = FVal(y)
FLt(x, y) == ~x.nan /\ ~y.nan /\ FVal(x) < FVal(y)
FLe(x, y) == ~x.nan /\ ~y.nan /\ FVal(x) <= FVal(y)

\* ------------------------------------------------------------------------
\* The element types' own (scalar) operations
\* ------------------------------------------------------------------------

IntTypes == {"i32", "u32"}
ElemTypes == {"i32", "u32", "f32"}

\* An operation, of a scalar or of a backend, returns a value or panics; an
\* operation of the SSE2 backend may also execute an instruction that the
\* processor does not have.
Ret(v) == [status |-> "ok", v |-> v]
Panic == [status |-> "panic", v |-> <<>>]
Fault == [status |-> "fault", v |-> <<>>]

AddOverflows(ty, x, y) ==
    IF ty = "i32"
    THEN TopBit(x) = TopBit(y) /\ TopBit(WrapAdd(x, y)) # TopBit(x)
    ELSE ULt(WrapAdd(x, y), x)
SubOverflows(ty, x, y) ==
    IF ty = "i32"
    THEN TopBit(x) # TopBit(y) /\ TopBit(WrapSub(x, y)) # TopBit(x)
    ELSE ULt(x, y)
MulOverflows(ty, x, y) ==
    IF x = ZERO THEN FALSE
    ELSE IF ty = "i32"
    THEN IF x = TRUE32 THEN y = I32_MIN ELSE SDiv(WrapMul(x, y), x) # y
    ELSE UDiv(WrapMul(x, y), x) # y

\* a + b, a - b, a * b: an overflow panics when the build checks overflow
\* (debug profile) and wraps otherwise.
ScalarAdd(ty, chk, x, y) == IF chk /\ AddOverflows(ty, x, y) THEN Panic ELSE Ret(WrapAdd(x, y))
ScalarSub(ty, chk, x, y) == IF chk /\ SubOverflows(ty, x, y) THEN Panic ELSE Ret(WrapSub(x, y))
ScalarMul(ty, chk, x, y) == IF chk /\ MulOverflows(ty, x, y) THEN Panic ELSE Ret(WrapMul(x, y))
\* a / b: division by zero and i32::MIN / -1 panic in every build.
ScalarDiv(ty, x, y) ==
    IF y = ZERO THEN Panic
    ELSE IF ty = "i32"
    THEN IF x = I32_MIN /\ y = TRUE32 THEN Panic ELSE Ret(SDiv(x, y))
    ELSE Ret(UDiv(x, y))
\* a << b, a >> b with b of the element type: an amount outside 0 .. 31
\* panics when the build checks overflow and is masked to 5 bits otherwise.
ShiftInRange(y) == y[1] = 0 /\ y[2] < 32
ScalarShl(ty, chk, x, y) ==
    IF chk /\ ~ShiftInRange(y) THEN Panic ELSE Ret(ShlN(x, y[2] % 32))
ScalarShr(ty, chk, x, y) ==
    IF chk /\ ~ShiftInRange(y) THEN Panic ELSE Ret(ShrN(ty, x, y[2] % 32))

\* ==, <, partial_cmp and cmp of two lanes.
ScalarEq(ty, x, y) == IF ty = "f32" THEN FEq(x, y) ELSE x = y
ScalarLt(ty, x, y) ==
    IF ty = "f32" THEN FLt(x, y) ELSE IF ty = "i32" THEN SLt(x, y) ELSE ULt(x, y)
ScalarLe(ty, x, y) == IF ty = "f32" THEN FLe(x, y) ELSE ~ScalarLt(ty, y, x)
ScalarPartialCmp(ty, x, y) ==
    IF ty = "f32" /\ (x.nan \/ y.nan) THEN "None"
    ELSE IF ScalarLt(ty, x, y) THEN "Less"
    ELSE IF ScalarLt(ty, y, x) THEN "Greater"
    ELSE "Equal"
ScalarCmp(ty, x, y) ==
    IF ScalarLt(ty, x, y) THEN "Less" ELSE IF ScalarLt(ty, y, x) THEN "Greater" ELSE "Equal"

\* ------------------------------------------------------------------------
\* The array backend (stable.rs).  Double<T>([T; 2]) and Quad<T>([T; 4]) are
\* transparent over their array, a sequence of 2 or 4 lanes.
\* ------------------------------------------------------------------------

\* The closure that an operator hands to fold or fold2, applied to a lane
\* (fold) or to a pair of lanes (fold2): |a, b| a + b, ..., |a| !a.
Closure(o, ty, chk, x, y) ==
    CASE o = "add" -> ScalarAdd(ty, chk, x, y)
      [] o = "sub" -> ScalarSub(ty, chk, x, y)
      [] o = "mul" -> ScalarMul(ty, chk, x, y)
      [] o = "div" -> ScalarDiv(ty, x, y)
      [] o = "bitand" -> IF ty = "bool" THEN Ret(x /\ y) ELSE Ret(And32(x, y))
      [] o = "bitor" -> IF ty = "bool" THEN Ret(x \/ y) ELSE Ret(Or32(x, y))
      [] o = "bitxor" -> IF ty = "bool" THEN Ret(x # y) ELSE Ret(Xor32(x, y))
      [] o = "not" -> IF ty = "bool" THEN Ret(~x) ELSE Ret(Not32(x))
      [] o = "shl" -> ScalarShl(ty, chk, x, y)
      [] o = "shr" -> ScalarShr(ty, chk, x, y)
      [] o = "eq" -> Ret(ScalarEq(ty, x, y))
      [] o = "ne" -> Ret(~ScalarEq(ty, x, y))
      [] o = "gt" -> Ret(ScalarLt(ty, y, x))
      [] o = "ge" -> Ret(ScalarLe(ty, y, x))
      [] o = "lt" -> Ret(ScalarLt(ty, x, y))
      [] o = "le" -> Ret(ScalarLe(ty, x, y))

fold(self, o, ty, chk) ==
    IF Len(self) = 2
    THEN <<Closure(o, ty, chk, self[1], self[1]), Closure(o, ty, chk, self[2], self[2])>>
    ELSE <<Closure(o, ty, chk, self[1], self[1]), Closure(o, ty, chk, self[2], self[2]),
           Closure(o, ty, chk, self[3], self[3]), Closure(o, ty, chk, self[4], self[4])>>
\* A faulty fold2 whose first output lane reads the second lane of other.
fold2_crossed(self, other, o, ty, chk) ==
    IF Len(self) = 2
    THEN <<Closure(o, ty, chk, self[1], other[2]), Closure(o, ty, chk, self[2], other[2])>>
    ELSE <<Closure(o, ty, chk, self[1], other[2]), Closure(o, ty, chk, self[2], other[2]),
           Closure(o, ty, chk, self[3], other[3]), Closure(o, ty, chk, self[4], other[4])>>
fold2(self, other, o, ty, chk) ==
    IF Len(self) = 2
    THEN <<Closure(o, ty, chk, self[1], other[1]), Closure(o, ty, chk, self[2], other[2])>>
    ELSE <<Closure(o, ty, chk, self[1], other[1]), Closure(o, ty, chk, self[2], other[2]),
           Closure(o, ty, chk, self[3], other[3]), Closure(o, ty, chk, self[4], other[4])>>

\* The array of the lanes' results; a panic in any lane unwinds out of the
\* expression that builds the array.
Unwind(rs) ==
    IF \E i \in DOMAIN rs : rs[i].status # "ok" THEN Panic
    ELSE IF Len(rs) = 2 THEN Ret(<<rs[1].v, rs[2].v>>)
    ELSE Ret(<<rs[1].v, rs[2].v, rs[3].v, rs[4].v>>)

naive_new(array) == array
naive_into_inner(self) == self
naive_splat(len, value) == IF len = 2 THEN <<value, value>> ELSE <<value, value, value, value>>

\* add, sub, mul, div, bitand, bitor, bitxor, shl, shr: fold2 of the two
\* arrays with the operator's closure; not: fold of the one.
naive_op(o, ty, chk, self, rhs) ==
    Unwind(IF o = "not" THEN fold(self, o, ty, chk) ELSE fold2(self, rhs, o, ty, chk))

\* self.0[0] == other.0[0] && self.0[1] == other.0[1] && ...
naive_eq(ty, self, other) == \A i \in DOMAIN self : ScalarEq(ty, self[i], other[i])

\* One match per index, in index order: Some(Equal) goes on, anything else
\* is returned.
RECURSIVE naive_partial_cmp_from(_, _, _, _)
naive_partial_cmp_from(ty, self, other, i) ==
    IF i > Len(self) THEN "Equal"
    ELSE LET c == ScalarPartialCmp(ty, self[i], other[i])
         IN  IF c = "Equal" THEN naive_partial_cmp_from(ty, self, other, i + 1) ELSE c
naive_partial_cmp(ty, self, other) == naive_partial_cmp_from(ty, self, other, 1)

RECURSIVE naive_cmp_from(_, _, _, _)
naive_cmp_from(ty, self, other, i) ==
    IF i > Len(self) THEN "Equal"
    ELSE LET c == ScalarCmp(ty, self[i], other[i])
         IN  IF c = "Equal" THEN naive_cmp_from(ty, self, other, i + 1) ELSE c
\* A faulty cmp that compares other with self.
naive_cmp_swapped(ty, self, other) == naive_cmp_from(ty, other, self, 1)
naive_cmp(ty, self, other) == naive_cmp_from(ty, self, other, 1)

\* ------------------------------------------------------------------------
\* The SSE2 instructions the backend uses.  A 128-bit register is a function
\* from the element number 0 .. 3 (element 0 in the low 32 bits) to the lane.
\* ------------------------------------------------------------------------

Elems == 0 .. 3

mm_set_epi32(e3, e2, e1, e0) ==
    [k \in Elems |-> IF k = 0 THEN e0 ELSE IF k = 1 THEN e1 ELSE IF k = 2 THEN e2 ELSE e3]
mm_set_ps(e3, e2, e1, e0) ==
    [k \in Elems |-> IF k = 0 THEN e0 ELSE IF k = 1 THEN e1 ELSE IF k = 2 THEN e2 ELSE e3]
\* A faulty broadcast that sets element 0 alone.
mm_set1_epi32_low(v) == [k \in Elems |-> IF k = 0 THEN v ELSE ZERO]
mm_set1_epi32(v) == [k \in Elems |-> v]
mm_set1_ps(v) == [k \in Elems |-> v]
\* Unaligned load of 16 bytes from an array of 4 lanes, and the store back.
mm_loadu_si128(array) == [k \in Elems |-> array[k + 1]]
mm_loadu_ps(array) == [k \in Elems |-> array[k + 1]]
\* A faulty store that writes the elements in the opposite order.
mm_storeu_si128_reversed(r) == <<r[3], r[2], r[1], r[0]>>
mm_storeu_si128(r) == <<r[0], r[1], r[2], r[3]>>
mm_storeu_ps(r) == <<r[0], r[1], r[2], r[3]>>

mm_add_epi32(x, y) == [k \in Elems |-> WrapAdd(x[k], y[k])]
mm_sub_epi32(x, y) == [k \in Elems |-> WrapSub(x[k], y[k])]
\* PMULLD, an SSE4.1 instruction: what it computes where the processor has it.
mm_mullo_epi32(x, y) == [k \in Elems |-> WrapMul(x[k], y[k])]
\* A faulty AND whose element 0 reads element 1 of y.
mm_and_si128_crossed(x, y) == [k \in Elems |-> And32(x[k], y[IF k = 0 THEN 1 ELSE k])]
mm_and_si128(x, y) == [k \in Elems |-> And32(x[k], y[k])]
mm_or_si128(x, y) == [k \in Elems |-> Or32(x[k], y[k])]
mm_xor_si128(x, y) == [k \in Elems |-> Xor32(x[k], y[k])]

\* The comparisons set a lane to all ones or to zero.  The integer ones
\* compare the lanes as signed 32-bit numbers.
mm_cmpeq_epi32(x, y) == [k \in Elems |-> IF x[k] = y[k] THEN TRUE32 ELSE ZERO]
\* A faulty greater-than that is also true of equal lanes.
mm_cmpge_epi32(x, y) == [k \in Elems |-> IF SLt(x[k], y[k]) THEN ZERO ELSE TRUE32]
mm_cmpgt_epi32(x, y) == [k \in Elems |-> IF SLt(y[k], x[k]) THEN TRUE32 ELSE ZERO]
mm_cmplt_epi32(x, y) == [k \in Elems |-> IF SLt(x[k], y[k]) THEN TRUE32 ELSE ZERO]
mm_cmpeq_ps(x, y) == [k \in Elems |-> IF FEq(x[k], y[k]) THEN TRUE32 ELSE ZERO]
mm_cmpge_ps(x, y) == [k \in Elems |-> IF FLe(y[k], x[k]) THEN TRUE32 ELSE ZERO]
mm_cmple_ps(x, y) == [k \in Elems |-> IF FLe(x[k], y[k]) THEN TRUE32 ELSE ZERO]
\* The sign bits of the four lanes, element 0 in bit 0.
mm_movemask_ps(x) == TopBit(x[0]) + 2 * TopBit(x[1]) + 4 * TopBit(x[2]) + 8 * TopBit(x[3])

\* ------------------------------------------------------------------------
\* The SSE2 backend (optimized/x86.rs).  I32x2, U32x2 and F32x2 are
\* transparent over an array of 2 lanes; I32x4, U32x4 and F32x4 over a
\* register.
\* ------------------------------------------------------------------------

I32x2_to_i32x4(self) == mm_set_epi32(ZERO, ZERO, self[2], self[1])
U32x2_to_u32x4(self) == mm_set_epi32(ZERO, ZERO, self[2], self[1])
F32x2_to_f32x4(self, pad) == mm_set_ps(pad, pad, self[2], self[1])
\* A faulty read of the register's last 8 bytes.
xy_high(self) == <<self[2], self[3]>>
\* The register's first 8 bytes, read through a pointer as an array of 2.
xy(self) == <<self[0], self[1]>>

\* mask == 0b1111
\* A faulty reduction that is true when any lane is.
U32x4_any_true(self) == mm_movemask_ps(self) # 0
U32x4_all_true(self) == mm_movemask_ps(self) = 15

I32x4_packed_eq(self, other) == mm_cmpeq_epi32(self, other)
I32x4_packed_gt(self, other) == mm_cmpgt_epi32(self, other)
I32x4_packed_lt(self, other) == mm_cmplt_epi32(self, other)
U32x4_packed_eq(self, other) == mm_cmpeq_epi32(self, other)
U32x4_packed_gt(self, other) == mm_cmpgt_epi32(self, other)
U32x4_packed_lt(self, other) == mm_cmplt_epi32(self, other)
F32x4_packed_eq(self, other) == mm_cmpeq_ps(self, other)
F32x4_packed_gte(self, other) == mm_cmpge_ps(self, other)
F32x4_packed_lte(self, other) == mm_cmple_ps(self, other)

I32x4_gen_new(array) == mm_loadu_si128(array)
I32x4_gen_splat(value) == mm_set1_epi32(value)
I32x4_gen_into_inner(self) == mm_storeu_si128(self)
U32x4_gen_new(array) == mm_loadu_si128(array)
U32x4_gen_splat(value) == mm_set1_epi32(value)
U32x4_gen_into_inner(self) == mm_storeu_si128(self)
F32x4_gen_new(array) == mm_loadu_ps(array)
F32x4_gen_splat(value) == mm_set1_ps(value)
F32x4_gen_into_inner(self) == mm_storeu_ps(self)

\* gen_add .. gen_not of I32x4.  gen_mul executes PMULLD although the module
\* is compiled for target_feature = "sse2" alone: sse41 says whether the
\* processor has the instruction.  gen_div divides the extracted scalars.
I32x4_gen(op, sse41, self, other) ==
    CASE op = "add" -> Ret(mm_add_epi32(self, other))
      [] op = "sub" -> Ret(mm_sub_epi32(self, other))
      [] op = "mul" -> IF sse41 THEN Ret(mm_mullo_epi32(self, other)) ELSE Fault
      [] op = "div" ->
            LET l == I32x4_gen_into_inner(self)
                r == I32x4_gen_into_inner(other)
                q == Unwind(<<ScalarDiv("i32", l[1], r[1]), ScalarDiv("i32", l[2], r[2]),
                              ScalarDiv("i32", l[3], r[3]), ScalarDiv("i32", l[4], r[4])>>)
            IN  IF q.status = "ok" THEN Ret(I32x4_gen_new(q.v)) ELSE q
      [] op = "bitand" -> Ret(mm_and_si128(self, other))
      [] op = "bitor" -> Ret(mm_or_si128(self, other))
      [] op = "bitxor" -> Ret(mm_xor_si128(self, other))
      [] op = "not" -> Ret(mm_xor_si128(self, mm_set1_epi32(TRUE32)))

U32x4_gen(op, sse41, self, other) ==
    CASE op = "add" -> Ret(mm_add_epi32(self, other))
      [] op = "sub" -> Ret(mm_sub_epi32(self, other))
      [] op = "mul" -> IF sse41 THEN Ret(mm_mullo_epi32(self, other)) ELSE Fault
      [] op = "div" ->
            LET l == U32x4_gen_into_inner(self)
                r == U32x4_gen_into_inner(other)
                q == Unwind(<<ScalarDiv("u32", l[1], r[1]), ScalarDiv("u32", l[2], r[2]),
                              ScalarDiv("u32", l[3], r[3]), ScalarDiv("u32", l[4], r[4])>>)
            IN  IF q.status = "ok" THEN Ret(U32x4_gen_new(q.v)) ELSE q
      [] op = "bitand" -> Ret(mm_and_si128(self, other))
      [] op = "bitor" -> Ret(mm_or_si128(self, other))
      [] op = "bitxor" -> Ret(mm_xor_si128(self, other))
      [] op = "not" -> Ret(mm_xor_si128(self, mm_set1_epi32(TRUE32)))

\* gen_add .. gen_not of I32x2 and U32x2: promote to 4 lanes padded with 0,
\* operate, read lanes 0 and 1 back; gen_div divides the two scalars.
I32x2_gen(op, sse41, self, other) ==
    IF op = "div"
    THEN Unwind(<<ScalarDiv("i32", self[1], other[1]), ScalarDiv("i32", self[2], other[2])>>)
    ELSE LET r == I32x4_gen(op, sse41, I32x2_to_i32x4(self), I32x2_to_i32x4(other))
         IN  IF r.status = "ok" THEN Ret(xy(r.v)) ELSE r

U32x2_gen(op, sse41, self, other) ==
    IF op = "div"
    THEN Unwind(<<ScalarDiv("u32", self[1], other[1]), ScalarDiv("u32", self[2], other[2])>>)
    ELSE LET r == U32x4_gen(op, sse41, U32x2_to_u32x4(self), U32x2_to_u32x4(other))
         IN  IF r.status = "ok" THEN Ret(xy(r.v)) ELSE r

\* The zip! macro over the two arrays of lane masks, lanes in index order,
\* with the match of the integer gen_ord ...
RECURSIVE zip_ord(_, _, _)
zip_ord(lt, gt, i) ==
    IF i > 4 THEN "Equal"
    ELSE IF lt[i] = TRUE32 THEN "Less"
    ELSE IF gt[i] = TRUE32 THEN "Greater"
    ELSE zip_ord(lt, gt, i + 1)
\* ... and with the match of F32x4::gen_partial_ord.
RECURSIVE zip_partial_ord(_, _, _)
zip_partial_ord(lte, gte, i) ==
    IF i > 4 THEN "Equal"
    ELSE IF lte[i] = ZERO /\ gte[i] = ZERO THEN "None"
    ELSE IF lte[i] = TRUE32 /\ gte[i] = ZERO THEN "Less"
    ELSE IF lte[i] = ZERO /\ gte[i] = TRUE32 THEN "Greater"
    ELSE zip_partial_ord(lte, gte, i + 1)

I32x4_gen_partial_eq(self, other) == U32x4_all_true(I32x4_packed_eq(self, other))
I32x4_gen_ord(self, other) ==
    zip_ord(U32x4_gen_into_inner(I32x4_packed_lt(self, other)),
            U32x4_gen_into_inner(I32x4_packed_gt(self, other)), 1)
I32x4_gen_partial_ord(self, other) == I32x4_gen_ord(self, other)

U32x4_gen_partial_eq(self, other) == U32x4_all_true(U32x4_packed_eq(self, other))
U32x4_gen_ord(self, other) ==
    zip_ord(U32x4_gen_into_inner(U32x4_packed_lt(self, other)),
            U32x4_gen_into_inner(U32x4_packed_gt(self, other)), 1)
U32x4_gen_partial_ord(self, other) == U32x4_gen_ord(self, other)

F32x4_gen_partial_eq(self, other) == U32x4_all_true(F32x4_packed_eq(self, other))
F32x4_gen_partial_ord(self, other) ==
    zip_partial_ord(U32x4_gen_into_inner(F32x4_packed_lte(self, other)),
                    U32x4_gen_into_inner(F32x4_packed_gte(self, other)), 1)

I32x2_gen_partial_eq(self, other) ==
    I32x4_gen_partial_eq(I32x2_to_i32x4(self), I32x2_to_i32x4(other))
I32x2_gen_ord(self, other) == I32x4_gen_ord(I32x2_to_i32x4(self), I32x2_to_i32x4(other))
I32x2_gen_partial_ord(self, other) == I32x2_gen_ord(self, other)

U32x2_gen_partial_eq(self, other) ==
    U32x4_gen_partial_eq(U32x2_to_u32x4(self), U32x2_to_u32x4(other))
U32x2_gen_ord(self, other) == U32x4_gen_ord(U32x2_to_u32x4(self), U32x2_to_u32x4(other))
U32x2_gen_partial_ord(self, other) ==
    U32x4_gen_partial_ord(U32x2_to_u32x4(self), U32x2_to_u32x4(other))

F32x2_gen_partial_eq(self, other) ==
    U32x4_all_true(F32x4_packed_eq(F32x2_to_f32x4(self, F(0)), F32x2_to_f32x4(other, F(0))))
F32x2_gen_partial_ord(self, other) ==
    F32x4_gen_partial_ord(F32x2_to_f32x4(self, F(0)), F32x2_to_f32x4(other, F(0)))

\* ------------------------------------------------------------------------
\* The array backend's masks: DoubleMask<T> and QuadMask<T> hold [bool; 2]
\* and [bool; 4], a sequence of 2 or 4 booleans.
\* ------------------------------------------------------------------------

\* packed_eq, packed_ne, packed_gt, packed_ge, packed_lt, packed_le: the mask
\* from fold2 of the two arrays with |a, b| a == b, ..., |a, b| a <= b.
naive_packed_swapped(o, ty, self, other) == Unwind(fold2(other, self, o, ty, FALSE)).v
naive_packed(o, ty, self, other) == Unwind(fold2(self, other, o, ty, FALSE)).v

\* &, |, ^ and ! of masks: fold2 and fold of the bool arrays.
naive_mask_op_and(o, self, rhs) == naive_op("bitand", "bool", FALSE, self, rhs).v
naive_mask_op(o, self, rhs) == naive_op(o, "bool", FALSE, self, rhs).v

\* self.mask[0] && self.mask[1] && ... && true
naive_mask_any_for_all(mask) ==
    IF Len(mask) = 2 THEN mask[1] \/ mask[2] \/ FALSE
    ELSE mask[1] \/ mask[2] \/ mask[3] \/ mask[4] \/ FALSE
naive_mask_all(mask) ==
    IF Len(mask) = 2 THEN mask[1] /\ mask[2] /\ TRUE
    ELSE mask[1] /\ mask[2] /\ mask[3] /\ mask[4] /\ TRUE
\* self.mask[0] || self.mask[1] || ... || false
naive_mask_any(mask) ==
    IF Len(mask) = 2 THEN mask[1] \/ mask[2] \/ FALSE
    ELSE mask[1] \/ mask[2] \/ mask[3] \/ mask[4] \/ FALSE

\* Quad::split, xy, zw and from_doubles of the array backend.
naive_xy(self) == <<self[1], self[2]>>
naive_zw(self) == <<self[3], self[4]>>
naive_split(self) == <<<<self[1], self[2]>>, <<self[3], self[4]>>>>
naive_from_doubles(x, y) == <<x[1], x[2], y[1], y[2]>>

\* ------------------------------------------------------------------------
\* The optimized module (optimized/mod.rs): Double<T> and Quad<T> wrap the
\* representation that Convertable names for T (I32x2 and I32x4 for i32,
\* U32x2 and U32x4 for u32, F32x2 and F32x4 for f32) and forward to its gen_
\* methods.
\* ------------------------------------------------------------------------

optimized_new(ty, len, array) ==
    IF len = 2 THEN array
    ELSE CASE ty = "i32" -> I32x4_gen_new(array)
           [] ty = "u32" -> U32x4_gen_new(array)
           [] ty = "f32" -> F32x4_gen_new(array)

optimized_splat(ty, len, value) ==
    IF len = 2 THEN <<value, value>>
    ELSE CASE ty = "i32" -> I32x4_gen_splat(value)
           [] ty = "u32" -> U32x4_gen_splat(value)
           [] ty = "f32" -> F32x4_gen_splat(value)

optimized_into_inner(ty, len, self) ==
    IF len = 2 THEN self
    ELSE CASE ty = "i32" -> I32x4_gen_into_inner(self)
           [] ty = "u32" -> U32x4_gen_into_inner(self)
           [] ty = "f32" -> F32x4_gen_into_inner(self)

\* add, sub, mul, div, bitand, bitor, bitxor, not
optimized_gen(ty, len, op, sse41, self, other) ==
    CASE ty = "i32" /\ len = 2 -> I32x2_gen(op, sse41, self, other)
      [] ty = "i32" /\ len = 4 -> I32x4_gen(op, sse41, self, other)
      [] ty = "u32" /\ len = 2 -> U32x2_gen(op, sse41, self, other)
      [] ty = "u32" /\ len = 4 -> U32x4_gen(op, sse41, self, other)

optimized_eq(ty, len, self, other) ==
    CASE ty = "i32" /\ len = 2 -> I32x2_gen_partial_eq(self, other)
      [] ty = "i32" /\ len = 4 -> I32x4_gen_partial_eq(self, other)
      [] ty = "u32" /\ len = 2 -> U32x2_gen_partial_eq(self, other)
      [] ty = "u32" /\ len = 4 -> U32x4_gen_partial_eq(self, other)
      [] ty = "f32" /\ len = 2 -> F32x2_gen_partial_eq(self, other)
      [] ty = "f32" /\ len = 4 -> F32x4_gen_partial_eq(self, other)

optimized_partial_cmp(ty, len, self, other) ==
    CASE ty = "i32" /\ len = 2 -> I32x2_gen_partial_ord(self, other)
      [] ty = "i32" /\ len = 4 -> I32x4_gen_partial_ord(self, other)
      [] ty = "u32" /\ len = 2 -> U32x2_gen_partial_ord(self, other)
      [] ty = "u32" /\ len = 4 -> U32x4_gen_partial_ord(self, other)
      [] ty = "f32" /\ len = 2 -> F32x2_gen_partial_ord(self, other)
      [] ty = "f32" /\ len = 4 -> F32x4_gen_partial_ord(self, other)

optimized_cmp(ty, len, self, other) ==
    CASE ty = "i32" /\ len = 2 -> I32x2_gen_ord(self, other)
      [] ty = "i32" /\ len = 4 -> I32x4_gen_ord(self, other)
      [] ty = "u32" /\ len = 2 -> U32x2_gen_ord(self, other)
      [] ty = "u32" /\ len = 4 -> U32x4_gen_ord(self, other)

\* ------------------------------------------------------------------------
\* The public types (lib.rs) forward to the backend the build selected.  A
\* run builds the tuples from the caller's arrays, applies the operation and
\* hands back what the caller sees: the lanes (into_inner), a comparison
\* result, or the failure.
\* ------------------------------------------------------------------------

Ok(l) == [status |-> "ok", lanes |-> l, ord |-> "-"]
OkOrd(o) == [status |-> "ok", lanes |-> <<>>, ord |-> o]
OkBool(p) == OkOrd(IF p THEN "true" ELSE "false")
Failed(s) == [status |-> s, lanes |-> <<>>, ord |-> "-"]
NotRun == Failed("none")
\* The optimized module has no Shl and no Shr.
Unsupported == Failed("unsupported")

stable_op(ty, chk, op, x, y) ==
    CHOOSE out \in {IF r.status = "ok" THEN Ok(naive_into_inner(r.v)) ELSE Failed(r.status) :
                       r \in {naive_op(op, ty, chk, naive_new(x), naive_new(y))}} : TRUE

sse2_op(ty, op, sse41, x, y) ==
    CHOOSE out \in {IF r.status = "ok" THEN Ok(optimized_into_inner(ty, Len(x), r.v))
                    ELSE Failed(r.status) :
                       r \in {optimized_gen(ty, Len(x), op, sse41, optimized_new(ty, Len(x), x),
                                            optimized_new(ty, Len(x), y))}} : TRUE

stable_eq(ty, x, y) == OkBool(naive_eq(ty, naive_new(x), naive_new(y)))
sse2_eq(ty, x, y) ==
    OkBool(optimized_eq(ty, Len(x), optimized_new(ty, Len(x), x), optimized_new(ty, Len(x), y)))

stable_partial_cmp(ty, x, y) == OkOrd(naive_partial_cmp(ty, naive_new(x), naive_new(y)))
sse2_partial_cmp(ty, x, y) ==
    OkOrd(optimized_partial_cmp(ty, Len(x), optimized_new(ty, Len(x), x),
                                optimized_new(ty, Len(x), y)))

stable_cmp(ty, x, y) == OkOrd(naive_cmp(ty, naive_new(x), naive_new(y)))
sse2_cmp(ty, x, y) ==
    OkOrd(optimized_cmp(ty, Len(x), optimized_new(ty, Len(x), x), optimized_new(ty, Len(x), y)))


\* ------------------------------------------------------------------------
\* The operands: each lane takes one of these pairs (a[i], b[i]).
\* ------------------------------------------------------------------------

I32_MAX == <<32767, 65535>>

IntPairs ==
    << <<Pat(12), Pat(12)>>,
       <<Pat(3), Pat(4)>>,
       <<NegPat(7), Pat(2)>>,
       <<I32_MIN, TRUE32>>,
       <<ONE, ZERO>>,
       <<I32_MAX, ONE>>,
       <<TRUE32, TRUE32>>,
       <<Pat(78), Pat(6)>> >>

FloatPairs ==
    << <<F(1), F(1)>>,
       <<F(1), F(2)>>,
       <<NaN, F(1)>>,
       <<NegZero, F(0)>>,
       <<F(2), F(1)>>,
       <<NaN, NaN>>,
       <<F(1), NaN>>,
       <<F(-3), F(-3)>> >>

Pairs(t) == IF t = "f32" THEN FloatPairs ELSE IntPairs

\* How many of the pairs the lanes choose from.
NumPairs == 6
Widths == {2, 4}

\* The pairs that sel chooses for the lanes, and their two sides.
Chosen(t, sel) ==
    IF DOMAIN sel = 1 .. 2
    THEN <<Pairs(t)[sel[1]], Pairs(t)[sel[2]]>>
    ELSE <<Pairs(t)[sel[1]], Pairs(t)[sel[2]], Pairs(t)[sel[3]], Pairs(t)[sel[4]]>>
Side(ps, k) ==
    IF Len(ps) = 2 THEN <<ps[1][k], ps[2][k]>> ELSE <<ps[1][k], ps[2][k], ps[3][k], ps[4][k]>>

\* ------------------------------------------------------------------------
\* The state: the element type, whether the build checks integer overflow
\* (debug-assertions), the target the crate is built for (its architecture
\* and whether the vector extension, sse2 or neon, is enabled: the native
\* backend of the operations is x86_64 with sse2), the two operand arrays, the numeric input of the
\* operations that have one (the index of an index operation, the number of
\* items of a sum or product), the operation applied ("none" before it is)
\* and what it gave with the array backend (arr) and with the SSE2 backend
\* (nat).
\* ------------------------------------------------------------------------

VARIABLES ty, overflow_checks, target, a, b, n, op, arr, nat

vars == <<ty, overflow_checks, target, a, b, n, op, arr, nat>>

Init ==
    \E t \in ElemTypes, w \in Widths, c \in BOOLEAN :
        \E sel \in [1 .. w -> 1 .. NumPairs] :
            /\ ty = t
            /\ overflow_checks = c
            /\ target = [arch |-> "x86_64", simd |-> TRUE]
            /\ a = Side(Chosen(t, sel), 1)
            /\ b = Side(Chosen(t, sel), 2)
            /\ n = 0
            /\ op = "none"
            /\ arr = NotRun
            /\ nat = NotRun

\* Double::new(a).into_inner(), Quad::new(a).into_inner()
New ==
    /\ op = "none"
    /\ op' = "new"
    /\ arr' = Ok(naive_into_inner(naive_new(a)))
    /\ nat' = Ok(optimized_into_inner(ty, Len(a), optimized_new(ty, Len(a), a)))
    /\ UNCHANGED <<ty, overflow_checks, target, a, b, n>>

\* Double::splat(a[0]).into_inner(), Quad::splat(a[0]).into_inner()
Splat ==
    /\ op = "none"
    /\ op' = "splat"
    /\ arr' = Ok(naive_into_inner(naive_splat(Len(a), a[1])))
    /\ nat' = Ok(optimized_into_inner(ty, Len(a), optimized_splat(ty, Len(a), a[1])))
    /\ UNCHANGED <<ty, overflow_checks, target, a, b, n>>

\* a op b on integer tuples, for an operation both backends have.
Binary(o) ==
    /\ op = "none"
    /\ ty \in IntTypes
    /\ op' = o
    /\ arr' = stable_op(ty, overflow_checks, o, a, b)
    /\ nat' = sse2_op(ty, o, TRUE, a, b)
    /\ UNCHANGED <<ty, overflow_checks, target, a, b, n>>

Add == Binary("add")
Sub == Binary("sub")
Div == Binary("div")
BitAnd == Binary("bitand")
BitOr == Binary("bitor")
BitXor == Binary("bitxor")
Not == Binary("not")

\* a * b: the processor of the SSE2 build has SSE4.1 or has not.
Mul ==
    /\ op = "none"
    /\ ty \in IntTypes
    /\ op' = "mul"
    /\ arr' = stable_op(ty, overflow_checks, "mul", a, b)
    /\ \E sse41 \in BOOLEAN : nat' = sse2_op(ty, "mul", sse41, a, b)
    /\ UNCHANGED <<ty, overflow_checks, target, a, b, n>>

\* a << b, a >> b: the array backend alone.
Shift(o) ==
    /\ op = "none"
    /\ ty \in IntTypes
    /\ op' = o
    /\ arr' = stable_op(ty, overflow_checks, o, a, b)
    /\ nat' = Unsupported
    /\ UNCHANGED <<ty, overflow_checks, target, a, b, n>>

Shl == Shift("shl")
Shr == Shift("shr")

\* a == b
Eq ==
    /\ op = "none"
    /\ op' = "eq"
    /\ arr' = stable_eq(ty, a, b)
    /\ nat' = sse2_eq(ty, a, b)
    /\ UNCHANGED <<ty, overflow_checks, target, a, b, n>>

\* a.partial_cmp(&b)
PartialCmp ==
    /\ op = "none"
    /\ op' = "partial_cmp"
    /\ arr' = stable_partial_cmp(ty, a, b)
    /\ nat' = sse2_partial_cmp(ty, a, b)
    /\ UNCHANGED <<ty, overflow_checks, target, a, b, n>>

\* a.cmp(&b), for the element types that are Ord.
Cmp ==
    /\ op = "none"
    /\ ty \in IntTypes
    /\ op' = "cmp"
    /\ arr' = stable_cmp(ty, a, b)
    /\ nat' = sse2_cmp(ty, a, b)
    /\ UNCHANGED <<ty, overflow_checks, target, a, b, n>>

\* ------------------------------------------------------------------------
\* In-place operators (lib.rs): a op= b is self.0 = self.0 op other.0.
\* ------------------------------------------------------------------------

\* self.0 op other.0 with the backend the build selected.
lib_op(bk, t, chk, sse41, o, x, y) ==
    IF bk = "array" THEN stable_op(t, chk, o, x, y)
    ELSE IF o \in {"shl", "shr"} THEN Unsupported
    ELSE sse2_op(t, o, sse41, x, y)

\* let mut t = new(x); t op= new(y); t.into_inner(): the operator's result is
\* stored over self.0; when the operator panics nothing is stored.
lib_op_assign_lost(bk, t, chk, sse41, o, x, y) == Ok(x)
lib_op_assign(bk, t, chk, sse41, o, x, y) ==
    CHOOSE self \in {IF r.status = "ok" THEN Ok(r.lanes) ELSE r :
                        r \in {lib_op(bk, t, chk, sse41, o, x, y)}} : TRUE

AssignOps == {"add", "sub", "mul", "div", "bitand", "bitor", "bitxor", "shl", "shr"}

\* a += b, a -= b, a *= b, a /= b, a &= b, a |= b, a ^= b, a <<= b, a >>= b
OpAssign ==
    /\ op = "none"
    /\ ty \in IntTypes
    /\ \E o \in AssignOps, sse41 \in BOOLEAN :
           /\ op' = o \o "_assign"
           /\ arr' = lib_op_assign("array", ty, overflow_checks, sse41, o, a, b)
           /\ nat' = lib_op_assign("sse2", ty, overflow_checks, sse41, o, a, b)
    /\ UNCHANGED <<ty, overflow_checks, target, a, b, n>>

\* ------------------------------------------------------------------------
\* Default
\* ------------------------------------------------------------------------

\* Default::default() of the element type: 0, 0.0.
ScalarDefault(t) == IF t = "f32" THEN F(0) ELSE ZERO

\* The array backend: [Default::default(), ...].
naive_default_ones(t, len) == naive_splat(len, ONE)
naive_default(t, len) ==
    IF len = 2
    THEN <<ScalarDefault(t), ScalarDefault(t)>>
    ELSE <<ScalarDefault(t), ScalarDefault(t), ScalarDefault(t), ScalarDefault(t)>>
\* The default mask: [false, ...].
naive_mask_default(len) == IF len = 2 THEN <<FALSE, FALSE>> ELSE <<FALSE, FALSE, FALSE, FALSE>>
\* The SSE2 backend: F32x2 is Self([0.0, 0.0]), the other types are
\* Self::gen_splat(Default::default()).
optimized_default(t, len) ==
    IF t = "f32" /\ len = 2 THEN <<F(0), F(0)>> ELSE optimized_splat(t, len, ScalarDefault(t))

\* Double::<T>::default().into_inner(), Quad::<T>::default().into_inner()
Default ==
    /\ op = "none"
    /\ op' = "default"
    /\ arr' = Ok(naive_into_inner(naive_default(ty, Len(a))))
    /\ nat' = Ok(optimized_into_inner(ty, Len(a), optimized_default(ty, Len(a))))
    /\ UNCHANGED <<ty, overflow_checks, target, a, b, n>>

\* DoubleMask::<T>::default(), QuadMask::<T>::default(): the array backend
\* alone has masks.
MaskDefault ==
    /\ op = "none"
    /\ op' = "mask_default"
    /\ arr' = Ok(naive_mask_default(Len(a)))
    /\ nat' = Unsupported
    /\ UNCHANGED <<ty, overflow_checks, target, a, b, n>>

\* ------------------------------------------------------------------------
\* Packed comparisons and masks
\* ------------------------------------------------------------------------

PackedOps == {"eq", "ne", "gt", "ge", "lt", "le"}

\* a.packed_eq(b), a.packed_ne(b), a.packed_gt(b), a.packed_ge(b),
\* a.packed_lt(b), a.packed_le(b); the optimized module has none of them.
Packed ==
    /\ op = "none"
    /\ \E o \in PackedOps :
           /\ op' = "packed_" \o o
           /\ arr' = Ok(naive_packed(o, ty, naive_new(a), naive_new(b)))
    /\ nat' = Unsupported
    /\ UNCHANGED <<ty, overflow_checks, target, a, b, n>>

\* The mask operands: the masks a.packed_ge(b) and a.packed_le(b).
MaskA == naive_packed("ge", ty, naive_new(a), naive_new(b))
MaskB == naive_packed("le", ty, naive_new(a), naive_new(b))

\* m.all(), m.any()
MaskReduce ==
    /\ op = "none"
    /\ \/ op' = "all" /\ arr' = OkBool(naive_mask_all(MaskA))
       \/ op' = "any" /\ arr' = OkBool(naive_mask_any(MaskA))
    /\ nat' = Unsupported
    /\ UNCHANGED <<ty, overflow_checks, target, a, b, n>>

MaskOps == {"bitand", "bitor", "bitxor", "not"}

\* m & n, m | n, m ^ n, !m
MaskBinary ==
    /\ op = "none"
    /\ \E o \in MaskOps :
           /\ op' = "mask_" \o o
           /\ arr' = Ok(naive_mask_op(o, MaskA, MaskB))
    /\ nat' = Unsupported
    /\ UNCHANGED <<ty, overflow_checks, target, a, b, n>>

\* ------------------------------------------------------------------------
\* Halves of a Quad (lib.rs): lo, hi and from_double go through into_inner
\* and new of the backend the build selected.
\* ------------------------------------------------------------------------

imp_new(bk, t, array) ==
    IF bk = "array" THEN naive_new(array) ELSE optimized_new(t, Len(array), array)
imp_into_inner(bk, t, len, self) ==
    IF bk = "array" THEN naive_into_inner(self) ELSE optimized_into_inner(t, len, self)

\* let [a, b, _, _] = self.0.into_inner(); Double::new([a, b])
Quad_lo(bk, t, self) ==
    LET l == imp_into_inner(bk, t, 4, self) IN imp_new(bk, t, <<l[1], l[2]>>)
\* let [_, _, a, b] = self.0.into_inner(); Double::new([a, b])
Quad_hi_first(bk, t, self) ==
    LET l == imp_into_inner(bk, t, 4, self) IN imp_new(bk, t, <<l[1], l[2]>>)
Quad_hi(bk, t, self) ==
    LET l == imp_into_inner(bk, t, 4, self) IN imp_new(bk, t, <<l[3], l[4]>>)
\* Quad::new([a0, a1, b0, b1])
Quad_from_double(bk, t, x, y) ==
    LET p == imp_into_inner(bk, t, 2, x)
        q == imp_into_inner(bk, t, 2, y)
    IN  imp_new(bk, t, <<p[1], p[2], q[1], q[2]>>)

\* Quad::new(a).lo().into_inner()
Lo ==
    /\ op = "none"
    /\ Len(a) = 4
    /\ op' = "lo"
    /\ arr' = Ok(imp_into_inner("array", ty, 2, Quad_lo("array", ty, imp_new("array", ty, a))))
    /\ nat' = Ok(imp_into_inner("sse2", ty, 2, Quad_lo("sse2", ty, imp_new("sse2", ty, a))))
    /\ UNCHANGED <<ty, overflow_checks, target, a, b, n>>

\* Quad::new(a).hi().into_inner()
Hi ==
    /\ op = "none"
    /\ Len(a) = 4
    /\ op' = "hi"
    /\ arr' = Ok(imp_into_inner("array", ty, 2, Quad_hi("array", ty, imp_new("array", ty, a))))
    /\ nat' = Ok(imp_into_inner("sse2", ty, 2, Quad_hi("sse2", ty, imp_new("sse2", ty, a))))
    /\ UNCHANGED <<ty, overflow_checks, target, a, b, n>>

\* Quad::from_double(Double::new(a), Double::new(b)).into_inner()
FromDouble ==
    /\ op = "none"
    /\ Len(a) = 2
    /\ op' = "from_double"
    /\ arr' = Ok(imp_into_inner("array", ty, 4,
                     Quad_from_double("array", ty, imp_new("array", ty, a), imp_new("array", ty, b))))
    /\ nat' = Ok(imp_into_inner("sse2", ty, 4,
                     Quad_from_double("sse2", ty, imp_new("sse2", ty, a), imp_new("sse2", ty, b))))
    /\ UNCHANGED <<ty, overflow_checks, target, a, b, n>>

\* ------------------------------------------------------------------------
\* Sum and Product (lib.rs): iter.fold(splat(zero), Add::add) and
\* iter.fold(splat(one), Mul::mul).
\* ------------------------------------------------------------------------

\* The longest sequence summed or multiplied.
MaxItems == 3

\* The items of the iterator: a, b, a, b, ... , k of them.
Items(k) == [i \in 1 .. k |-> IF i % 2 = 1 THEN a ELSE b]

imp_splat(bk, t, len, value) ==
    IF bk = "array" THEN naive_splat(len, value) ELSE optimized_splat(t, len, value)

\* Iterator::fold with the operator o: the accumulator is replaced by
\* acc o item for each item in turn; a failure of the operator ends the fold.
RECURSIVE iter_fold(_, _, _, _, _, _, _)
iter_fold(bk, t, chk, sse41, o, acc, items) ==
    IF items = <<>> THEN Ok(acc)
    ELSE CHOOSE out \in
             {IF r.status = "ok" THEN iter_fold(bk, t, chk, sse41, o, r.lanes, Tail(items))
              ELSE r :
                  r \in {lib_op(bk, t, chk, sse41, o, acc, Head(items))}} : TRUE

lib_sum_from_one(bk, t, chk, sse41, len, items) ==
    iter_fold(bk, t, chk, sse41, "add",
              imp_into_inner(bk, t, len, imp_splat(bk, t, len, ONE)), items)
lib_sum(bk, t, chk, sse41, len, items) ==
    iter_fold(bk, t, chk, sse41, "add",
              imp_into_inner(bk, t, len, imp_splat(bk, t, len, ZERO)), items)
lib_product(bk, t, chk, sse41, len, items) ==
    iter_fold(bk, t, chk, sse41, "mul",
              imp_into_inner(bk, t, len, imp_splat(bk, t, len, ONE)), items)

\* items.sum::<Double<T>>(), items.sum::<Quad<T>>()
Sum ==
    /\ op = "none"
    /\ ty \in IntTypes
    /\ \E k \in 0 .. MaxItems :
           /\ n' = k
           /\ op' = "sum"
           /\ arr' = lib_sum("array", ty, overflow_checks, TRUE, Len(a), Items(k))
           /\ nat' = lib_sum("sse2", ty, overflow_checks, TRUE, Len(a), Items(k))
    /\ UNCHANGED <<ty, overflow_checks, target, a, b>>

\* items.product::<Double<T>>(), items.product::<Quad<T>>()
Product ==
    /\ op = "none"
    /\ ty \in IntTypes
    /\ \E k \in 0 .. MaxItems, sse41 \in BOOLEAN :
           /\ n' = k
           /\ op' = "product"
           /\ arr' = lib_product("array", ty, overflow_checks, sse41, Len(a), Items(k))
           /\ nat' = lib_product("sse2", ty, overflow_checks, sse41, Len(a), Items(k))
    /\ UNCHANGED <<ty, overflow_checks, target, a, b>>

\* ------------------------------------------------------------------------
\* Indexing.  Every backend ends in Rust's checked indexing of a fixed-size
\* array: self.0[index] (stable.rs, the x2 types of x86.rs), the register
\* viewed as [T; 4] and indexed (the x4 types of x86.rs), self.mask[index].
\* ------------------------------------------------------------------------

\* The largest index tried.
MaxIndex == 5

\* array[index]: the element, or the panic of the bounds check.
array_index_wrapping(array, index) == Ret(array[(index % Len(array)) + 1])
array_index(array, index) == IF index < Len(array) THEN Ret(array[index + 1]) ELSE Panic
\* array[index] = value: the array after the store, or the panic of the
\* bounds check, which comes before any store.
array_index_set(array, index, value) ==
    IF index < Len(array) THEN Ret([array EXCEPT ![index + 1] = value]) ELSE Panic

\* &self.0[index] of the public type: gen_index on the selected backend.
imp_index(bk, t, len, self, index) == array_index(imp_into_inner(bk, t, len, self), index)
\* A faulty store through the pointer that fills the whole register.
imp_index_set_all(bk, t, len, self, index, value) ==
    IF index < len THEN Ret(imp_new(bk, t, naive_splat(len, value))) ELSE Panic
\* self.0[index] = value through gen_index_mut: the tuple after the store.
imp_index_set(bk, t, len, self, index, value) ==
    LET r == array_index_set(imp_into_inner(bk, t, len, self), index, value)
    IN  IF r.status = "ok" THEN Ret(imp_new(bk, t, r.v)) ELSE Panic

\* A panic that leaves the tuple or mask l behind.
Aborted(l) == [status |-> "panic", lanes |-> l, ord |-> "-"]

\* The lane read by t[index].
lib_index(bk, t, x, index) ==
    LET r == imp_index(bk, t, Len(x), imp_new(bk, t, x), index)
    IN  IF r.status = "ok" THEN Ok(<<r.v>>) ELSE Failed(r.status)
\* The tuple after t[index] = value.
lib_index_set(bk, t, x, index, value) ==
    LET r == imp_index_set(bk, t, Len(x), imp_new(bk, t, x), index, value)
    IN  IF r.status = "ok" THEN Ok(imp_into_inner(bk, t, Len(x), r.v)) ELSE Aborted(x)

\* Double::new(a)[i], Quad::new(a)[i]
Index ==
    /\ op = "none"
    /\ \E i \in 0 .. MaxIndex :
           /\ n' = i
           /\ op' = "index"
           /\ arr' = lib_index("array", ty, a, i)
           /\ nat' = lib_index("sse2", ty, a, i)
    /\ UNCHANGED <<ty, overflow_checks, target, a, b>>

\* let mut t = Double::new(a); t[i] = b[0]; t.into_inner() (and Quad)
IndexMut ==
    /\ op = "none"
    /\ \E i \in 0 .. MaxIndex :
           /\ n' = i
           /\ op' = "index_mut"
           /\ arr' = lib_index_set("array", ty, a, i, b[1])
           /\ nat' = lib_index_set("sse2", ty, a, i, b[1])
    /\ UNCHANGED <<ty, overflow_checks, target, a, b>>

\* m.test(i)
MaskTest ==
    /\ op = "none"
    /\ \E i \in 0 .. MaxIndex :
           /\ n' = i
           /\ op' = "test"
           /\ arr' = LET r == array_index(MaskA, i)
                     IN  IF r.status = "ok" THEN OkBool(r.v) ELSE Failed(r.status)
    /\ nat' = Unsupported
    /\ UNCHANGED <<ty, overflow_checks, target, a, b>>

\* m.set(i, value)
MaskSet ==
    /\ op = "none"
    /\ \E i \in 0 .. MaxIndex, value \in BOOLEAN :
           /\ n' = i
           /\ op' = "set"
           /\ arr' = LET r == array_index_set(MaskA, i, value)
                     IN  IF r.status = "ok" THEN Ok(r.v) ELSE Aborted(MaskA)
    /\ nat' = Unsupported
    /\ UNCHANGED <<ty, overflow_checks, target, a, b>>

\* ------------------------------------------------------------------------
\* Hashing: what the tuple feeds the Hasher, as the sequence of its write
\* calls.
\* ------------------------------------------------------------------------

\* One call of the Hasher: write_i32 / write_u32 of a lane, write_usize of a
\* length, write of the bytes of several lanes at once.
Write(call, data) == [call |-> call, data |-> data]
write_lane(t) == IF t = "i32" THEN "write_i32" ELSE "write_u32"

\* stable.rs: self.0[0].hash(state); self.0[1].hash(state); ...
naive_hash(t, self) == [i \in 1 .. Len(self) |-> Write(write_lane(t), <<self[i]>>)]

\* <[T; N] as Hash>::hash: the slice's hash, which writes the length and then
\* the bytes of all the integers in one call.
array_hash(array) == <<Write("write_usize", <<Pat(Len(array))>>), Write("write", array)>>

\* gen_hash of I32x2, I32x4, U32x4: self.gen_into_inner().hash(state);
\* of U32x2: self.to_u32x4().gen_hash(state).
optimized_hash(t, len, self) ==
    CASE t = "i32" /\ len = 2 -> array_hash(self)
      [] t = "i32" /\ len = 4 -> array_hash(I32x4_gen_into_inner(self))
      [] t = "u32" /\ len = 2 -> array_hash(U32x4_gen_into_inner(U32x2_to_u32x4(self)))
      [] t = "u32" /\ len = 4 -> array_hash(U32x4_gen_into_inner(self))

\* Double::new(a).hash(&mut state), Quad::new(a).hash(&mut state)
Hash ==
    /\ op = "none"
    /\ ty \in IntTypes
    /\ op' = "hash"
    /\ arr' = Ok(naive_hash(ty, naive_new(a)))
    /\ nat' = Ok(optimized_hash(ty, Len(a), optimized_new(ty, Len(a), a)))
    /\ UNCHANGED <<ty, overflow_checks, target, a, b, n>>

\* ------------------------------------------------------------------------
\* min, max and clamp (lib.rs over stable.rs; the optimized module's x86
\* types have none of the three).
\* ------------------------------------------------------------------------

\* if a < b { a } else { b }
min(t, x, y) == IF ScalarLt(t, x, y) THEN x ELSE y
\* A faulty max that tests a < b.
max_of_lt(t, x, y) == IF ScalarLt(t, x, y) THEN x ELSE y
\* if a > b { a } else { b }
max(t, x, y) == IF ScalarLt(t, y, x) THEN x ELSE y

\* self.0.fold2(other.0, |a, b| min(a, b)), and the same with max
naive_min(t, self, other) ==
    IF Len(self) = 2
    THEN <<min(t, self[1], other[1]), min(t, self[2], other[2])>>
    ELSE <<min(t, self[1], other[1]), min(t, self[2], other[2]),
           min(t, self[3], other[3]), min(t, self[4], other[4])>>
naive_max(t, self, other) ==
    IF Len(self) = 2
    THEN <<max(t, self[1], other[1]), max(t, self[2], other[2])>>
    ELSE <<max(t, self[1], other[1]), max(t, self[2], other[2]),
           max(t, self[3], other[3]), max(t, self[4], other[4])>>
\* self.max(min).min(max)
naive_clamp(t, self, lo, hi) == naive_min(t, naive_max(t, self, lo), hi)

lib_min(t, x, y) == Ok(naive_into_inner(naive_min(t, naive_new(x), naive_new(y))))
lib_max(t, x, y) == Ok(naive_into_inner(naive_max(t, naive_new(x), naive_new(y))))
lib_clamp(t, x, lo, hi) ==
    Ok(naive_into_inner(naive_clamp(t, naive_new(x), naive_new(lo), naive_new(hi))))

\* The three operands of clamp, from a, b and a with its lanes in the
\* opposite order: the value, the lower end, the upper end.
Reversed(s) == IF Len(s) = 2 THEN <<s[2], s[1]>> ELSE <<s[4], s[3], s[2], s[1]>>
ClampArgs(k) == IF k = 1 THEN <<a, b, Reversed(a)>> ELSE <<b, a, Reversed(a)>>

\* a.min(b)
Min ==
    /\ op = "none"
    /\ op' = "min"
    /\ arr' = lib_min(ty, a, b)
    /\ nat' = Unsupported
    /\ UNCHANGED <<ty, overflow_checks, target, a, b, n>>

\* a.max(b)
Max ==
    /\ op = "none"
    /\ op' = "max"
    /\ arr' = lib_max(ty, a, b)
    /\ nat' = Unsupported
    /\ UNCHANGED <<ty, overflow_checks, target, a, b, n>>

\* x.clamp(lo, hi)
Clamp ==
    /\ op = "none"
    /\ \E k \in {1, 2} :
           /\ n' = k
           /\ op' = "clamp"
           /\ arr' = lib_clamp(ty, ClampArgs(k)[1], ClampArgs(k)[2], ClampArgs(k)[3])
           /\ nat' = Unsupported
    /\ UNCHANGED <<ty, overflow_checks, target, a, b>>

\* ------------------------------------------------------------------------
\* Several writes through IndexMut on one tuple, which stays in its
\* backend's representation between them.
\* ------------------------------------------------------------------------

\* t[w[1]] = w[2] for each write w of writes, in order.
RECURSIVE imp_index_set_each(_, _, _, _, _)
imp_index_set_each(bk, t, len, self, writes) ==
    IF writes = <<>> THEN Ret(self)
    ELSE CHOOSE out \in {IF r.status = "ok"
                         THEN imp_index_set_each(bk, t, len, r.v, Tail(writes))
                         ELSE Panic :
                            r \in {imp_index_set(bk, t, len, self, Head(writes)[1],
                                                 Head(writes)[2])}} : TRUE

\* let mut t = new(x); the writes; t.into_inner()
lib_index_set_each(bk, t, x, writes) ==
    CHOOSE out \in {IF r.status = "ok" THEN Ok(imp_into_inner(bk, t, Len(x), r.v))
                    ELSE Aborted(x) :
                       r \in {imp_index_set_each(bk, t, Len(x), imp_new(bk, t, x), writes)}} : TRUE

\* The two writes that n stands for: t[i] = b[0]; t[j] = b[1], with
\* n = i * width + j.
Writes(k) == <<<<k \div Len(a), b[1]>>, <<k % Len(a), b[2]>>>>

\* let mut t = Double::new(a); t[i] = b[0]; t[j] = b[1]; t.into_inner()
IndexMutTwice ==
    /\ op = "none"
    /\ \E i \in 0 .. Len(a) - 1, j \in 0 .. Len(a) - 1 :
           /\ n' = i * Len(a) + j
           /\ op' = "index_mut_twice"
           /\ arr' = lib_index_set_each("array", ty, a, Writes(i * Len(a) + j))
           /\ nat' = lib_index_set_each("sse2", ty, a, Writes(i * Len(a) + j))
    /\ UNCHANGED <<ty, overflow_checks, target, a, b>>

\* ------------------------------------------------------------------------
\* Masks built by splat and changed by set (lib.rs over stable.rs).
\* ------------------------------------------------------------------------

\* [value, value] or [value, value, value, value]
naive_mask_splat(len, value) ==
    IF len = 2 THEN <<value, value>> ELSE <<value, value, value, value>>
\* self.mask[index]
naive_mask_test(mask, index) == array_index(mask, index)
\* A faulty set that can raise a lane and never lower it.
naive_mask_set_or(mask, index, value) ==
    IF index < Len(mask) THEN Ret([mask EXCEPT ![index + 1] = @ \/ value]) ELSE Panic
\* self.mask[index] = value
naive_mask_set(mask, index, value) == array_index_set(mask, index, value)

\* m.set(w[1], w[2]) for each w of writes, in order.
RECURSIVE naive_mask_set_each(_, _)
naive_mask_set_each(mask, writes) ==
    IF writes = <<>> THEN Ret(mask)
    ELSE CHOOSE out \in {IF r.status = "ok" THEN naive_mask_set_each(r.v, Tail(writes))
                         ELSE Panic :
                            r \in {naive_mask_set(mask, Head(writes)[1], Head(writes)[2])}} : TRUE

\* [m.test(0), m.test(1), ...]
lib_mask_tests(mask) ==
    Unwind(IF Len(mask) = 2
           THEN <<naive_mask_test(mask, 0), naive_mask_test(mask, 1)>>
           ELSE <<naive_mask_test(mask, 0), naive_mask_test(mask, 1),
                  naive_mask_test(mask, 2), naive_mask_test(mask, 3)>>)

\* let mut m = Mask::splat(value); the sets; the test of every lane
lib_mask_set_each(len, value, writes) ==
    CHOOSE out \in {IF r.status = "ok" THEN Ok(lib_mask_tests(r.v).v) ELSE Failed(r.status) :
                       r \in {naive_mask_set_each(naive_mask_splat(len, value), writes)}} : TRUE

\* The splat value and the two sets that n stands for, their values taken
\* from the operands' masks: m.set(i, ..); m.set(j, ..), n = i * width + j.
SplatValue == MaskA[1]
MaskWrites(k) == <<<<k \div Len(a), MaskB[1]>>, <<k % Len(a), MaskB[2]>>>>

\* let mut m = Mask::splat(v); m.set(i, v1); m.set(j, v2); m.test(0), ...
MaskSetTwice ==
    /\ op = "none"
    /\ \E i \in 0 .. Len(a) - 1, j \in 0 .. Len(a) - 1 :
           /\ n' = i * Len(a) + j
           /\ op' = "set_twice"
           /\ arr' = lib_mask_set_each(Len(a), SplatValue, MaskWrites(i * Len(a) + j))
    /\ nat' = Unsupported
    /\ UNCHANGED <<ty, overflow_checks, target, a, b>>

Next ==
    \/ New \/ Splat
    \/ Add \/ Sub \/ Mul \/ Div
    \/ BitAnd \/ BitOr \/ BitXor \/ Not
    \/ Shl \/ Shr
    \/ Eq \/ PartialCmp \/ Cmp
    \/ OpAssign
    \/ Default \/ MaskDefault
    \/ Packed \/ MaskReduce \/ MaskBinary
    \/ Lo \/ Hi \/ FromDouble
    \/ Sum \/ Product
    \/ Index \/ IndexMut \/ MaskTest \/ MaskSet
    \/ Hash
    \/ Min \/ Max \/ Clamp
    \/ IndexMutTwice
    \/ MaskSetTwice

Spec == Init /\ [][Next]_vars

\* ------------------------------------------------------------------------
\* Properties
\* ------------------------------------------------------------------------

LaneIdx == 1 .. Len(a)
BothBackends == {arr, nat}
\* The scalar operation of the last tuple operation on lane i.
LaneWise(i) == Closure(op, ty, overflow_checks, a[i], b[i])

\* C1: for i32 and u32 at widths 2 and 4, each of add, sub, mul, div, bitand,
\* bitor, bitxor and not returns under the SSE2 backend exactly the lanes that
\* the array backend returns for the same two input tuples.
C1_BackendEquivalence ==
    (/\ op \in {"add", "sub", "mul", "div", "bitand", "bitor", "bitxor", "not"}
     /\ ty \in IntTypes
     /\ arr.status = "ok")
        => nat = arr

\* C2: for Double and Quad and every lane i, (a + b)[i] = a[i] + b[i],
\* (a - b)[i] = a[i] - b[i] and (a * b)[i] = a[i] * b[i] wherever the tuple
\* operation and the scalar operation both give a value; lane i of the result
\* is a function of a[i] and b[i] alone.
C2_ElementwiseArith ==
    op \in {"add", "sub", "mul"} =>
        \A r \in BothBackends : r.status = "ok" =>
            \A i \in LaneIdx : LaneWise(i).status = "ok" => r.lanes[i] = LaneWise(i).v

C2_Witness ==
    /\ op = "mul" /\ Len(a) = 4
    /\ arr.status = "ok" /\ nat.status = "ok"
    /\ a[1] = NegPat(7) /\ nat.lanes[1] = NegPat(14)
    /\ a[2] = Pat(3) /\ nat.lanes[2] = Pat(12)

\* The remainder x - q * y of a quotient rounded toward zero is smaller in
\* magnitude than y and zero or of the sign of x.
IsTruncatingQuotient(x, y, q) ==
    LET rem == x - q * y
    IN  /\ IF y > 0 THEN 0 - y < rem /\ rem < y ELSE y < rem /\ y < 0 - rem
        /\ rem = 0 \/ (rem < 0) = (x < 0)

\* C3: for the integer element types and every lane i, (a / b)[i] is the
\* scalar quotient a[i] / b[i] rounded toward zero, at both widths and under
\* both backends; a quotient is returned only when every b[i] is not 0.
C3_TruncatingDivision ==
    op = "div" =>
        \A r \in BothBackends : r.status = "ok" =>
            \A i \in LaneIdx :
                /\ b[i] # ZERO
                /\ r.lanes[i] = ScalarDiv(ty, a[i], b[i]).v
                /\ (ty = "i32" \/ (TopBit(a[i]) = 0 /\ TopBit(b[i]) = 0))
                       => IsTruncatingQuotient(SInt(a[i]), SInt(b[i]), SInt(r.lanes[i]))

C3_Witness ==
    /\ op = "div" /\ ty = "i32" /\ Len(a) = 4
    /\ arr.status = "ok" /\ nat.status = "ok"
    /\ \E i \in LaneIdx : a[i] = NegPat(7) /\ b[i] = Pat(2) /\ nat.lanes[i] = NegPat(3)

\* C4: for the integer element types and every lane i, (a & b)[i] = a[i] & b[i],
\* (a | b)[i] = a[i] | b[i], (a ^ b)[i] = a[i] ^ b[i], (!a)[i] = !a[i],
\* (a << b)[i] = a[i] << b[i] and (a >> b)[i] = a[i] >> b[i].
C4_ElementwiseBits ==
    op \in {"bitand", "bitor", "bitxor", "not", "shl", "shr"} =>
        \A r \in BothBackends : r.status = "ok" =>
            \A i \in LaneIdx : LaneWise(i).status = "ok" => r.lanes[i] = LaneWise(i).v

C4_Witness ==
    /\ op = "bitand" /\ Len(a) = 4
    /\ nat.status = "ok"
    /\ a[1] = NegPat(7) /\ b[1] = Pat(2) /\ nat.lanes[1] = ZERO
    /\ a[2] = Pat(12) /\ b[2] = Pat(12) /\ nat.lanes[2] = Pat(12)

\* C5: for every array x of length 2 or 4, new(x).into_inner() = x: the same
\* lanes in the same order, under every backend.
C5_NewIntoInner == op = "new" => arr = Ok(a) /\ nat = Ok(a)

C5_Witness ==
    /\ op = "new" /\ Len(a) = 4
    /\ nat.lanes = a
    /\ a[1] # a[2] /\ a[2] # a[3] /\ a[3] # a[4] /\ a[1] # a[4]

\* C6: for every value v, splat(v).into_inner() is [v, v] for a Double and
\* [v, v, v, v] for a Quad.
C6_Splat ==
    op = "splat" =>
        \A r \in BothBackends :
            /\ r.status = "ok"
            /\ Len(r.lanes) = Len(a)
            /\ \A i \in LaneIdx : r.lanes[i] = a[1]

C6_Witness ==
    /\ op = "splat" /\ Len(a) = 4
    /\ a[1] # a[2]
    /\ nat.lanes = <<a[1], a[1], a[1], a[1]>>

\* The lanes at which x and y are not equal.
Differing(t, x, y) == {i \in DOMAIN x : ~ScalarEq(t, x[i], y[i])}
\* The comparison of the lowest such lane, Equal when there is none.
Lexicographic(t, x, y) ==
    IF Differing(t, x, y) = {} THEN "Equal"
    ELSE LET i == CHOOSE k \in Differing(t, x, y) : \A j \in Differing(t, x, y) : k <= j
         IN  ScalarPartialCmp(t, x[i], y[i])

\* C7: a.partial_cmp(&b) and a.cmp(&b) return the comparison of the lowest
\* lane at which a[i] and b[i] are not equal, and Equal when there is no such
\* lane.
C7_Lexicographic ==
    op \in {"partial_cmp", "cmp"} =>
        \A r \in BothBackends : r.ord = Lexicographic(ty, a, b)

Reverse(o) == IF o = "Less" THEN "Greater" ELSE IF o = "Greater" THEN "Less" ELSE o

\* C8: swapping the operands of partial_cmp reverses the result: Greater
\* becomes Less, Less becomes Greater, Equal stays Equal and None stays None.
C8_SwapReverses ==
    op = "partial_cmp" =>
        /\ stable_partial_cmp(ty, b, a).ord = Reverse(arr.ord)
        /\ sse2_partial_cmp(ty, b, a).ord = Reverse(nat.ord)

C8_Witness ==
    /\ op = "partial_cmp" /\ Len(a) = 4
    /\ arr.ord = "Greater" /\ nat.ord = "Greater"
    /\ sse2_partial_cmp(ty, b, a).ord = "Less"
    /\ a[1] = b[1]

\* C9: for the element types with a total order, a.partial_cmp(&b) is
\* Some(a.cmp(&b)), and a == b exactly when a.cmp(&b) is Equal.
C9_TotalAgreesWithPartial ==
    ty \in IntTypes =>
        /\ op = "partial_cmp" =>
               /\ arr.ord = stable_cmp(ty, a, b).ord
               /\ nat.ord = sse2_cmp(ty, a, b).ord
        /\ op = "eq" =>
               /\ arr.ord = "true" <=> stable_cmp(ty, a, b).ord = "Equal"
               /\ nat.ord = "true" <=> sse2_cmp(ty, a, b).ord = "Equal"

C9_Witness ==
    /\ op = "partial_cmp" /\ ty = "i32" /\ Len(a) = 4
    /\ nat.ord = "Less" /\ arr.ord = "Less"
    /\ a[1] = b[1] /\ a[2] # b[2]

\* C10: a == b exactly when a[i] == b[i] for every lane i; the SSE2 backend's
\* per-lane compare followed by the all-lanes-true reduction gives the same
\* answer.
C10_EqIsConjunction ==
    op = "eq" =>
        \A r \in BothBackends :
            r.ord = "true" <=> \A i \in LaneIdx : ScalarEq(ty, a[i], b[i])

C10_Witness ==
    /\ op = "eq" /\ Len(a) = 4
    /\ nat.ord = "false" /\ arr.ord = "false"
    /\ \E i \in LaneIdx : ScalarEq(ty, a[i], b[i])
    /\ Cardinality(Differing(ty, a, b)) = 1

\* The binary operator of an in-place operator.
BaseOp == CHOOSE o \in AssignOps : o \o "_assign" = op

\* C11: each in-place operator is the binary operator followed by assignment:
\* after a op= b the tuple a is a_before op b, under both backends, so that
\* lane i is a_before[i] op b[i] wherever the scalar operation gives a value.
C11_InPlace ==
    (\E o \in AssignOps : o \o "_assign" = op) =>
        /\ arr = stable_op(ty, overflow_checks, BaseOp, a, b)
        /\ \E sse41 \in BOOLEAN : nat = lib_op("sse2", ty, overflow_checks, sse41, BaseOp, a, b)
        /\ \A r \in BothBackends : r.status = "ok" =>
               \A i \in LaneIdx :
                   LET s == Closure(BaseOp, ty, overflow_checks, a[i], b[i])
                   IN  s.status = "ok" => r.lanes[i] = s.v

C11_Witness ==
    /\ op = "mul_assign" /\ ty = "i32" /\ Len(a) = 2
    /\ a = <<Pat(3), NegPat(7)>> /\ b = <<Pat(4), Pat(2)>>
    /\ arr.lanes = <<Pat(12), NegPat(14)>> /\ nat.lanes = <<Pat(12), NegPat(14)>>

\* C12: the default tuple is splat(T::default()) under both backends, every
\* lane being the element type's zero, and the default mask has every lane
\* false.
C12_Default ==
    /\ op = "default" =>
           /\ arr = Ok(naive_into_inner(naive_splat(Len(a), ScalarDefault(ty))))
           /\ nat = Ok(optimized_into_inner(ty, Len(a),
                                            optimized_splat(ty, Len(a), ScalarDefault(ty))))
           /\ \A r \in BothBackends :
                  /\ Len(r.lanes) = Len(a)
                  /\ \A i \in LaneIdx : r.lanes[i] = IF ty = "f32" THEN F(0) ELSE Pat(0)
    /\ op = "mask_default" =>
           /\ Len(arr.lanes) = Len(a)
           /\ \A i \in LaneIdx : arr.lanes[i] = FALSE

C12_Witness ==
    /\ op = "default" /\ ty = "i32" /\ Len(a) = 4
    /\ arr.lanes = <<ZERO, ZERO, ZERO, ZERO>> /\ nat.lanes = <<ZERO, ZERO, ZERO, ZERO>>

\* C13: m.all() is true exactly when every lane of m is true, and m.any()
\* exactly when at least one lane is.
C13_AllAny ==
    /\ op = "all" => (arr.ord = "true" <=> \A i \in LaneIdx : MaskA[i])
    /\ op = "any" => (arr.ord = "true" <=> \E i \in LaneIdx : MaskA[i])

C13_Witness ==
    /\ op = "all" /\ Len(a) = 4
    /\ arr.ord = "false"
    /\ MaskA[1] /\ MaskA[2] /\ MaskA[3] /\ ~MaskA[4]

MaskNot(m) == naive_mask_op("not", m, m)

\* C14: masks obey De Morgan's laws lane for lane: !(a & b) = (!a | !b) and
\* !(a | b) = (!a & !b); and (!m).any() = !m.all(), (!m).all() = !m.any().
C14_DeMorgan ==
    /\ op = "mask_bitand" =>
           MaskNot(arr.lanes) = naive_mask_op("bitor", MaskNot(MaskA), MaskNot(MaskB))
    /\ op = "mask_bitor" =>
           MaskNot(arr.lanes) = naive_mask_op("bitand", MaskNot(MaskA), MaskNot(MaskB))
    /\ op = "mask_not" =>
           /\ naive_mask_any(arr.lanes) = ~naive_mask_all(MaskA)
           /\ naive_mask_all(arr.lanes) = ~naive_mask_any(MaskA)
           /\ \A i \in LaneIdx : arr.lanes[i] = ~MaskA[i]

C14_Witness ==
    /\ op = "mask_bitand" /\ Len(a) = 4
    /\ MaskA = <<TRUE, TRUE, FALSE, FALSE>> /\ MaskB = <<TRUE, FALSE, TRUE, FALSE>>
    /\ arr.lanes = <<TRUE, FALSE, FALSE, FALSE>>

\* Whether two lanes hold the same number, and whether x holds a smaller
\* number than y (a NaN holds none).
LaneSame(t, x, y) ==
    IF t = "f32" THEN ~x.nan /\ ~y.nan /\ FVal(x) = FVal(y) ELSE x = y
LaneBelow(t, x, y) ==
    CASE t = "f32" -> ~x.nan /\ ~y.nan /\ FVal(x) < FVal(y)
      [] t = "i32" -> SInt(x) < SInt(y)
      [] t = "u32" -> x[1] < y[1] \/ (x[1] = y[1] /\ x[2] < y[2])
\* The scalar comparison o of x and y.
LaneCompare(o, t, x, y) ==
    CASE o = "packed_eq" -> LaneSame(t, x, y)
      [] o = "packed_ne" -> ~LaneSame(t, x, y)
      [] o = "packed_lt" -> LaneBelow(t, x, y)
      [] o = "packed_le" -> LaneBelow(t, x, y) \/ LaneSame(t, x, y)
      [] o = "packed_gt" -> LaneBelow(t, y, x)
      [] o = "packed_ge" -> LaneBelow(t, y, x) \/ LaneSame(t, x, y)

\* C16: each packed comparison returns the mask whose lane i is the scalar
\* comparison of a[i] and b[i] (==, !=, <, <=, >, >=), and packed_ne(a, b) is
\* !packed_eq(a, b).
C16_PackedComparisons ==
    /\ (\E o \in PackedOps : "packed_" \o o = op) =>
           /\ Len(arr.lanes) = Len(a)
           /\ \A i \in LaneIdx : arr.lanes[i] = LaneCompare(op, ty, a[i], b[i])
    /\ op = "packed_ne" =>
           arr.lanes = naive_mask_op("not", naive_packed("eq", ty, a, b), MaskA)

C16_Witness ==
    /\ op = "packed_le" /\ ty = "f32" /\ Len(a) = 4
    /\ a = <<F(1), F(2), NaN, F(1)>> /\ b = <<F(1), F(1), F(1), F(2)>>
    /\ arr.lanes = <<TRUE, FALSE, FALSE, TRUE>>

Backends == {"array", "sse2"}
Result(bk) == IF bk = "array" THEN arr ELSE nat

\* C15: split and merge are inverse: from_double(q.lo(), q.hi()) has the
\* lanes of q, from_double(a, b).lo() those of a and .hi() those of b; lo is
\* lanes 0, 1 and hi is lanes 2, 3, in order.
C15_SplitMerge ==
    /\ op = "lo" => \A bk \in Backends :
           /\ Result(bk) = Ok(<<a[1], a[2]>>)
           /\ LET q == imp_new(bk, ty, a)
              IN  imp_into_inner(bk, ty, 4,
                      Quad_from_double(bk, ty, Quad_lo(bk, ty, q), Quad_hi(bk, ty, q))) = a
           /\ naive_from_doubles(naive_xy(a), naive_zw(a)) = a
           /\ naive_from_doubles(naive_split(a)[1], naive_split(a)[2]) = a
    /\ op = "hi" => \A bk \in Backends : Result(bk) = Ok(<<a[3], a[4]>>)
    /\ op = "from_double" => \A bk \in Backends :
           /\ Result(bk) = Ok(<<a[1], a[2], b[1], b[2]>>)
           /\ LET q == Quad_from_double(bk, ty, imp_new(bk, ty, a), imp_new(bk, ty, b))
              IN  /\ imp_into_inner(bk, ty, 2, Quad_lo(bk, ty, q)) = a
                  /\ imp_into_inner(bk, ty, 2, Quad_hi(bk, ty, q)) = b

C15_Witness ==
    /\ op = "from_double" /\ ty = "i32"
    /\ a = <<Pat(3), NegPat(7)>> /\ b = <<Pat(4), Pat(2)>>
    /\ nat.lanes = <<Pat(3), NegPat(7), Pat(4), Pat(2)>>

\* The sum and the product, in 32-bit arithmetic, of lane i of the first k
\* items.
RECURSIVE LaneSum(_, _)
LaneSum(i, k) == IF k = 0 THEN Pat(0) ELSE WrapAdd(LaneSum(i, k - 1), Items(k)[k][i])
RECURSIVE LaneProduct(_, _)
LaneProduct(i, k) == IF k = 0 THEN Pat(1) ELSE WrapMul(LaneProduct(i, k - 1), Items(k)[k][i])

\* C17: summing a sequence of tuples folds + from splat(0) and multiplying
\* folds * from splat(1): lane i of the result is the sum (the product) of
\* the lane-i values of the items in order, and the empty sequence gives
\* splat(0) (splat(1)).
C17_SumProduct ==
    /\ op = "sum" => \A r \in BothBackends :
           /\ n = 0 => r = Ok(naive_splat(Len(a), Pat(0)))
           /\ r.status = "ok" =>
                  /\ Len(r.lanes) = Len(a)
                  /\ \A i \in LaneIdx : r.lanes[i] = LaneSum(i, n)
    /\ op = "product" => \A r \in BothBackends :
           /\ n = 0 => r = Ok(naive_splat(Len(a), Pat(1)))
           /\ r.status = "ok" =>
                  /\ Len(r.lanes) = Len(a)
                  /\ \A i \in LaneIdx : r.lanes[i] = LaneProduct(i, n)

C17_Witness ==
    /\ op = "sum" /\ n = 3 /\ ty = "i32"
    /\ a = <<Pat(3), NegPat(7)>> /\ b = <<Pat(4), Pat(2)>>
    /\ arr.lanes = <<Pat(10), NegPat(12)>> /\ nat.lanes = <<Pat(10), NegPat(12)>>

\* C18: reading or writing a Double at an index >= 2 or a Quad at an index
\* >= 4, and mask test / set at such an index, panics under every backend: no
\* lane is returned and the tuple or mask is left as it was.  An index
\* within the width reads or writes that lane.
C18_OutOfBounds ==
    /\ (op \in {"index", "index_mut"} /\ n >= Len(a)) =>
           \A r \in BothBackends :
               /\ r.status = "panic"
               /\ r.lanes = IF op = "index" THEN <<>> ELSE a
    /\ (op \in {"test", "set"} /\ n >= Len(a)) =>
           /\ arr.status = "panic"
           /\ arr.ord = "-"
           /\ arr.lanes = IF op = "test" THEN <<>> ELSE MaskA
    /\ (op = "index" /\ n < Len(a)) => \A r \in BothBackends : r = Ok(<<a[n + 1]>>)
    /\ (op = "index_mut" /\ n < Len(a)) =>
           \A r \in BothBackends : r = Ok([a EXCEPT ![n + 1] = b[1]])
    /\ (op = "test" /\ n < Len(a)) => arr = OkBool(MaskA[n + 1])

C18_Witness ==
    /\ op = "index_mut" /\ Len(a) = 4 /\ n = 4
    /\ a[1] # b[1]
    /\ arr.status = "panic" /\ nat.status = "panic"

\* C19: a tuple operation fails exactly when the scalar operation on one of
\* its lanes fails: a division by zero or of i32::MIN by -1, or an overflow
\* of +, -, * in a build whose scalar operation signals it, aborts the tuple
\* operation, and the operation gives a value when every lane's scalar
\* operation does; under the array backend and the native i32/u32 backend.
C19_FailurePropagation ==
    (op \in {"add", "sub", "mul", "div"} /\ ty \in IntTypes) =>
        \A r \in BothBackends :
            (r.status # "ok") <=> (\E i \in LaneIdx : LaneWise(i).status # "ok")

\* ------------------------------------------------------------------------
\* Backend selection: the representation behind Double<T> and Quad<T>.
\* lib.rs takes `mod optimized` with the feature nightly and `mod stable`
\* without it; the repository holds two files for `mod optimized`,
\* optimized.rs (portable SIMD) and optimized/mod.rs (architecture intrinsics).
\* ------------------------------------------------------------------------

\* Element types tried: the primitive numbers and three further Copy types.
ElementTypes ==
    {"u8", "i8", "u16", "i16", "u32", "i32", "u64", "i64", "usize", "isize",
     "f32", "f64", "u128", "i128", "Wrapping<u32>"}

ModuleFiles == {"stable.rs", "optimized.rs", "optimized/mod.rs"}
Archs == {"x86", "x86_64", "arm", "aarch64"}

\* naive::Double<T>, naive::Quad<T>: the array wrappers of stable.rs.
naive_type(len) == IF len = 2 THEN "naive::Double" ELSE "naive::Quad"

\* optimized.rs: the types named in simd_available! get Simd<T, 2> and
\* Simd<T, 4>, the blanket default impl gives every other Copy type the arrays.
simd_available ==
    {"u8", "i8", "u16", "i16", "u32", "i32", "u64", "i64", "usize", "isize", "f32", "f64"}
MaybeSimd(t, len) ==
    IF t \in simd_available
    THEN (IF len = 2 THEN "Simd<T, 2>" ELSE "Simd<T, 4>")
    ELSE naive_type(len)

\* x86.rs, arm.rs: the types F32x2 .. I32x4 that the file exports.  With sse2
\* they are the register structs; without sse2, and on arm without neon, they
\* are aliases of the arrays; the neon module declares none of them.
imp_type(arch, simd, len) ==
    IF arch \in {"x86", "x86_64"}
    THEN (IF simd THEN (IF len = 2 THEN "sse::x2" ELSE "sse::x4") ELSE naive_type(len))
    ELSE (IF simd THEN "unresolved" ELSE naive_type(len))

\* optimized/mod.rs: f32, i32 and u32 get the types of the architecture file,
\* the blanket default impl gives every other Copy type the arrays.
Convertable(t, arch, simd, len) ==
    IF t \in {"f32", "i32", "u32"} THEN imp_type(arch, simd, len) ELSE naive_type(len)

\* The type behind crate::Double<T> (len = 2) or crate::Quad<T> (len = 4).
imp_repr(file, t, arch, simd, len) ==
    CASE file = "stable.rs" -> naive_type(len)
      [] file = "optimized.rs" -> MaybeSimd(t, len)
      [] file = "optimized/mod.rs" -> Convertable(t, arch, simd, len)

Selected(repr) == [status |-> "ok", lanes |-> <<>>, ord |-> repr]

\* The representations that are not the array wrappers.
NativeTypes == {"Simd<T, 2>", "Simd<T, 4>", "sse::x2", "sse::x4"}

InitSelect ==
    /\ ty \in ElementTypes
    /\ n \in Widths
    /\ overflow_checks = FALSE
    /\ target \in [arch : Archs, simd : BOOLEAN]
    /\ a = <<>>
    /\ b = <<>>
    /\ op = "none"
    /\ arr = NotRun
    /\ nat = NotRun

\* Resolving Double<ty> or Quad<ty> in one build of the crate: the array
\* wrapper of stable.rs in arr, the type the build selects in nat.
Select ==
    /\ op = "none"
    /\ \E file \in ModuleFiles :
           /\ op' = file
           /\ nat' = Selected(imp_repr(file, ty, target.arch, target.simd, n))
    /\ arr' = Selected(naive_type(n))
    /\ UNCHANGED <<ty, overflow_checks, target, a, b, n>>

\* ------------------------------------------------------------------------
\* Methods marked unreachable!() and the trait bounds that guard them.
\* ------------------------------------------------------------------------

\* The trait that lib.rs requires of T for each public operation.
lib_bound_copy(m) == "Copy"
lib_bound(m) ==
    CASE m = "add" -> "Add" [] m = "sub" -> "Sub" [] m = "mul" -> "Mul" [] m = "div" -> "Div"
      [] m = "bitand" -> "BitAnd" [] m = "bitor" -> "BitOr" [] m = "bitxor" -> "BitXor"
      [] m = "not" -> "Not" [] m = "neg" -> "Neg" [] m = "shl" -> "Shl" [] m = "shr" -> "Shr"
      [] m = "partial_eq" -> "PartialEq" [] m = "partial_ord" -> "PartialOrd"
      [] m = "ord" -> "Ord" [] m = "hash" -> "Hash" [] m = "default" -> "Default"
      [] m = "abs" -> "Signed" [] m \in {"min", "max"} -> "PartialOrd"
      [] m \in {"recip", "floor", "ceil", "round", "sqrt"} -> "Real"

PublicOps ==
    {"add", "sub", "mul", "div", "bitand", "bitor", "bitxor", "not", "neg", "shl", "shr",
     "partial_eq", "partial_ord", "ord", "hash", "default", "abs", "min", "max",
     "recip", "floor", "ceil", "round", "sqrt"}

\* (f32, is_float, not_unsigned) .. (u8, not_float, is_unsigned)
is_float(t) == t \in {"f32", "f64"}
is_unsigned(t) == t \in {"u8", "u16", "u32", "u64", "usize", "u128"}

\* The traits of core and num_traits that the element types implement.
Implements(t, trait) ==
    CASE trait \in {"Copy", "Add", "Sub", "Mul", "PartialEq", "PartialOrd", "Default"} -> TRUE
      [] trait = "Div" -> TRUE
      [] trait \in {"BitAnd", "BitOr", "BitXor", "Not", "Shl", "Shr", "Ord", "Hash"} ->
            ~is_float(t)
      [] trait = "Neg" -> ~is_unsigned(t)
      [] trait = "Signed" -> ~is_unsigned(t) /\ t # "Wrapping<u32>"
      [] trait = "Real" -> is_float(t)

\* The gen_ methods that the backend trait of each file declares.
backend_methods(file) ==
    IF file = "optimized.rs" THEN PublicOps
    ELSE {"add", "sub", "mul", "div", "bitand", "bitor", "bitxor", "not",
          "partial_eq", "partial_ord", "ord", "hash", "default"}

\* The methods whose body is unreachable!(): the @not_if_float,
\* @not_if_unsigned and @if_float arms of optimized.rs, and gen_bitand ..
\* gen_hash of F32x2 and F32x4 in x86.rs.
marked_unreachable(file, t, m) ==
    IF file = "optimized.rs"
    THEN \/ is_float(t) /\ m \in {"bitand", "bitor", "bitxor", "not", "shl", "shr", "ord", "hash"}
         \/ is_unsigned(t) /\ m \in {"neg", "abs"}
         \/ ~is_float(t) /\ m \in {"recip", "floor", "ceil", "round", "sqrt"}
    ELSE t = "f32" /\ m \in {"bitand", "bitor", "bitxor", "not", "ord", "hash"}

\* Calling the method on the native type repr: unreachable!() panics.
gen_call(file, t, m, repr) ==
    IF marked_unreachable(file, t, m) THEN Aborted(<<>>) ELSE Selected(repr)

\* A public operation on Double<ty> or Quad<ty> in a build where the type is
\* native: it exists where ty meets the operation's trait bound, and calls
\* the backend's gen_ method.
Invoke ==
    /\ op = "none"
    /\ \E file \in {"optimized.rs", "optimized/mod.rs"}, m \in PublicOps :
           LET repr == imp_repr(file, ty, target.arch, target.simd, n)
           IN  /\ repr \in NativeTypes
               /\ m \in backend_methods(file)
               /\ Implements(ty, lib_bound(m))
               /\ op' = m
               /\ nat' = gen_call(file, ty, m, repr)
    /\ arr' = Selected(naive_type(n))
    /\ UNCHANGED <<ty, overflow_checks, target, a, b, n>>

NextSelect == Select \/ Invoke

SelectSpec == InitSelect /\ [][NextSelect]_vars

\* C20: in a build that selects backends, exactly the element types u8, i8,
\* u16, i16, u32, i32, u64, i64, usize, isize, f32 and f64 get a native
\* representation, at width 2 and at width 4; every other Copy element type
\* gets the array wrapper.
C20_Selection ==
    op \in {"optimized.rs", "optimized/mod.rs"} =>
        IF ty \in {"u8", "i8", "u16", "i16", "u32", "i32", "u64", "i64",
                   "usize", "isize", "f32", "f64"}
        THEN nat.ord \in NativeTypes
        ELSE nat = arr

\* C21: on x86, x86_64, arm and aarch64, with the vector extension (sse2,
\* neon) enabled or not, resolving Double and Quad of f32, i32 and u32 through
\* the architecture file gives a defined type, and with the extension not
\* enabled that type is the array wrapper.
C21_ResolutionDefined ==
    (op = "optimized/mod.rs" /\ ty \in {"f32", "i32", "u32"}) =>
        /\ nat.ord \in NativeTypes \cup {naive_type(2), naive_type(4)}
        /\ ~target.simd => nat = arr

FileOf(repr) == IF repr \in {"sse::x2", "sse::x4"} THEN "optimized/mod.rs" ELSE "optimized.rs"

\* C22: no method marked unreachable is reached through the public API: a
\* public operation that the element type's traits allow calls a backend
\* method that is implemented and returns; the methods bitand, bitor, bitxor,
\* not, shl, shr, ord, hash of a float vector, neg and abs of an unsigned
\* vector and recip, floor, ceil, round, sqrt of an integer vector are never
\* called, and calling one would panic.
C22_UnreachableNeverReached ==
    /\ op \in PublicOps =>
           /\ nat.status = "ok"
           /\ ~marked_unreachable(FileOf(nat.ord), ty, op)
    /\ \A m \in {"bitand", "bitor", "bitxor", "not", "shl", "shr", "ord", "hash"} :
           /\ gen_call("optimized.rs", "f32", m, "Simd<T, 2>").status = "panic"
           /\ gen_call("optimized.rs", "f64", m, "Simd<T, 4>").status = "panic"
           /\ m \in backend_methods("optimized/mod.rs") =>
                  gen_call("optimized/mod.rs", "f32", m, "sse::x4").status = "panic"
    /\ \A m \in {"neg", "abs"} : gen_call("optimized.rs", "u32", m, "Simd<T, 2>").status = "panic"
    /\ \A m \in {"recip", "floor", "ceil", "round", "sqrt"} :
           gen_call("optimized.rs", "i32", m, "Simd<T, 4>").status = "panic"

C22_Witness ==
    /\ op = "hash" /\ ty = "u32" /\ n = 4
    /\ nat = Selected("sse::x4")

\* C23: hashing a Double or Quad feeds the hasher the tuple's lanes, one write
\* per lane in index order and nothing else, and the same sequence under the
\* array backend and the native i32/u32 backend.
C23_HashFeedsLanes ==
    op = "hash" =>
        /\ \A r \in BothBackends :
               /\ Len(r.lanes) = Len(a)
               /\ \A i \in LaneIdx : r.lanes[i].data = <<a[i]>>
        /\ nat = arr

\* C24: for f32 tuples a and b, if some lane pair (a[i], b[i]) is
\* incomparable (a NaN is involved), a.partial_cmp(&b) is None under the array
\* backend and under the SSE2 backend.
C24_NaNGivesNone ==
    (/\ op = "partial_cmp"
     /\ ty = "f32"
     /\ \E i \in LaneIdx : ScalarPartialCmp(ty, a[i], b[i]) = "None")
        => \A r \in BothBackends : r.ord = "None"

\* C25: for Double<u32> and Quad<u32>, cmp and partial_cmp under the SSE2
\* backend return the Ordering that the array backend's unsigned
\* lexicographic comparison returns, lanes of 2^31 and above included.
C25_UnsignedOrdering ==
    (op \in {"partial_cmp", "cmp"} /\ ty = "u32") =>
        /\ arr.ord = naive_cmp(ty, a, b)
        /\ nat = arr

AllLe == \A i \in LaneIdx : ScalarLe(ty, a[i], b[i])
AllGe == \A i \in LaneIdx : ScalarLe(ty, b[i], a[i])

\* C26: under the SSE2 backend the ordering of a and b follows from the two
\* all-lanes reductions: Equal when every lane has a[i] <= b[i] and every lane
\* has a[i] >= b[i], Less when only the first holds, Greater when only the
\* second holds, unordered when neither holds; for i32 and u32 one of the two
\* always holds.
C26_OrderingFromReductions ==
    op \in {"partial_cmp", "cmp"} =>
        /\ nat.ord = (IF AllLe /\ AllGe THEN "Equal"
                      ELSE IF AllLe THEN "Less"
                      ELSE IF AllGe THEN "Greater"
                      ELSE "None")
        /\ ty \in IntTypes => (AllLe \/ AllGe)


\* ------------------------------------------------------------------------
\* The 2-wide SSE2 operations with the two extra lanes of both promoted
\* operands holding pad in place of the value written in x86.rs: to_f32x4
\* takes the pad as its argument, to_i32x4 and to_u32x4 write 0.
\* ------------------------------------------------------------------------

IntPads == {ZERO, ONE, TRUE32, I32_MIN, I32_MAX}
FloatPads == {F(0), F(1), F(-1), NegZero}
x2_to_x4(self, pad) == mm_set_epi32(pad, pad, self[2], self[1])

padded_gen(t, o, sse41, pad, self, other) ==
    IF o = "div"
    THEN Unwind(<<ScalarDiv(t, self[1], other[1]), ScalarDiv(t, self[2], other[2])>>)
    ELSE LET r == IF t = "i32"
                  THEN I32x4_gen(o, sse41, x2_to_x4(self, pad), x2_to_x4(other, pad))
                  ELSE U32x4_gen(o, sse41, x2_to_x4(self, pad), x2_to_x4(other, pad))
         IN  IF r.status = "ok" THEN Ret(xy(r.v)) ELSE r

padded_eq(t, pad, self, other) ==
    CASE t = "i32" -> I32x4_gen_partial_eq(x2_to_x4(self, pad), x2_to_x4(other, pad))
      [] t = "u32" -> U32x4_gen_partial_eq(x2_to_x4(self, pad), x2_to_x4(other, pad))
      [] t = "f32" ->
            U32x4_all_true(F32x4_packed_eq(F32x2_to_f32x4(self, pad), F32x2_to_f32x4(other, pad)))

padded_ord(t, pad, self, other) ==
    CASE t = "i32" -> I32x4_gen_ord(x2_to_x4(self, pad), x2_to_x4(other, pad))
      [] t = "u32" -> U32x4_gen_ord(x2_to_x4(self, pad), x2_to_x4(other, pad))
      [] t = "f32" ->
            F32x4_gen_partial_ord(F32x2_to_f32x4(self, pad), F32x2_to_f32x4(other, pad))

\* What the caller sees of operation o on a and b with pad in the extra lanes.
padded_run(o, sse41, pad) ==
    CASE o = "eq" -> OkBool(padded_eq(ty, pad, a, b))
      [] o \in {"partial_cmp", "cmp"} -> OkOrd(padded_ord(ty, pad, a, b))
      [] OTHER ->
            LET r == padded_gen(ty, o, sse41, pad, a, b)
            IN  IF r.status = "ok" THEN Ok(r.v) ELSE Failed(r.status)

PaddedOps == {"add", "sub", "mul", "div", "bitand", "bitor", "bitxor", "not", "eq", "partial_cmp", "cmp"}

\* The pad leaves the SSE2 result of the state as it is.
PadIndependent(pad) ==
    IF op \in {"eq", "partial_cmp", "cmp"}
    THEN padded_run(op, TRUE, pad) = nat
    ELSE \A sse41 \in BOOLEAN :
            nat = sse2_op(ty, op, sse41, a, b) => padded_run(op, sse41, pad) = nat

InRange(t, v, lo, hi) == ScalarLe(t, lo, v) /\ ScalarLe(t, v, hi)

C29_WriteIsLocal ==
    /\ (op = "index_mut" /\ n < Len(a)) =>
           \A r \in BothBackends, bk \in {"array", "sse2"} :
               /\ r.status = "ok"
               /\ lib_index(bk, ty, r.lanes, n) = Ok(<<b[1]>>)
               /\ \A j \in 0 .. Len(a) - 1 :
                      j # n => lib_index(bk, ty, r.lanes, j) = Ok(<<a[j + 1]>>)
               /\ Len(r.lanes) = Len(a)
    /\ op = "index_mut_twice" =>
           \A r \in BothBackends :
               /\ r.status = "ok"
               /\ Len(r.lanes) = Len(a)
               /\ \A k \in 0 .. Len(a) - 1 :
                      r.lanes[k + 1] = (IF k = Writes(n)[2][1] THEN b[2]
                                        ELSE IF k = Writes(n)[1][1] THEN b[1]
                                        ELSE a[k + 1])

\* Two writes to two lanes of a Quad, each changing its lane.
C29_Witness ==
    /\ op = "index_mut_twice" /\ Len(a) = 4
    /\ Writes(n)[1][1] = 3 /\ Writes(n)[2][1] = 1
    /\ a[4] # b[1] /\ a[2] # b[2] /\ b[1] # b[2]
    /\ nat = Ok(<<a[1], b[2], a[3], b[1]>>)
    /\ arr = nat


\* C30: m.set(i, v) with i within the width leaves test(j) as it was for
\* every other lane j, and after Mask::splat(v) followed by two sets,
\* test(k) is the value of the last set to lane k, or v when lane k was
\* not set.
C30_MaskSetIsLocal ==
    /\ (op = "set" /\ n < Len(a)) =>
           /\ arr.status = "ok"
           /\ Len(arr.lanes) = Len(a)
           /\ \A j \in 0 .. Len(a) - 1 : j # n => arr.lanes[j + 1] = MaskA[j + 1]
    /\ op = "set_twice" =>
           /\ arr.status = "ok"
           /\ Len(arr.lanes) = Len(a)
           /\ \A k \in 0 .. Len(a) - 1 :
                  arr.lanes[k + 1] = (IF k = MaskWrites(n)[2][1] THEN MaskWrites(n)[2][2]
                                      ELSE IF k = MaskWrites(n)[1][1] THEN MaskWrites(n)[1][2]
                                      ELSE SplatValue)

\* A lane set twice, to true and then to false, in a mask of true lanes.
C30_Witness ==
    /\ op = "set_twice" /\ Len(a) = 4
    /\ SplatValue
    /\ MaskWrites(n)[1] = <<2, TRUE>> /\ MaskWrites(n)[2] = <<2, FALSE>>
    /\ arr = Ok(<<TRUE, TRUE, FALSE, TRUE>>)

====
